---- MODULE Spec2Model ----
(***************************************************************************)
(* A model of aspen-rs: the shared Store and the cooperative scheduling of *)
(* its tasks (src/src/store.rs, src/src/server.rs), the closed-loop client *)
(* connection state machine (src/src/client.rs), the open-loop client      *)
(* (src/src/client/open.rs) and the wire codec (src/src/packet.rs).        *)
(*                                                                         *)
(* Each subsystem has its own specifications: SpecStore, SpecStoreFair and  *)
(* SpecYield for the Store, SpecServer for the server and the main thread, *)
(* SpecConn and SpecPool for the closed-loop client, SpecOpen for the      *)
(* open-loop client, SpecClients for the read side of both, SpecIds for    *)
(* the request ids, SpecCodec for the codec and SpecAddr for the addresses *)
(* of the clients' streams. The variables of the other subsystems stay at  *)
(* their initial value under each.                                         *)
(***************************************************************************)
EXTENDS Integers, Sequences, FiniteSets, TLC

\* ---------------------------------------------------------------- bounds
\* Length of the largest initial store (entries 0..BigLen-1).
BigLen == 34
\* Number of requests the server tasks receive in a run.
MaxReqs == 3
\* Largest number of executor threads.
MaxThreads == 2
\* Most connections of a client thread.
MaxConns == 2
\* Most requests of a client thread's workload.
MaxWork == 3
\* Most resets and closes the peer makes in a run.
MaxFaults == 1
\* Most requests an open-loop thread generates in a run.
MaxIssued == 2
\* Most connections of an open-loop thread.
MaxOpenConns == 1
\* Most threads of an open-loop bench, and most requests each generates.
MaxBenchThreads == 4
MaxIds == 3
\* Most connections the server accepts, and most requests written on them.
MaxSrvConns == 2
MaxSrvReqs == 2
\* Reads or writes of no byte a worker makes in a row before the count stops.
MaxSpin == 2
\* Local ports the client's streams can be given, and most reconnects of a run.
MaxLocalPorts == 3
MaxReconnects == 2

\* ------------------------------------------------------ program constants
YIELD_FREQ == 5
LEN_LENGTH == 8
BUF_LEN == 512
BE_BYTE == 6
LC_READ_BYTE == 7
LC_WRITE_BYTE == 8
NONE_BYTE == 0
SOME_BYTE == 1
CAPACITY == 8500000
PORT == 12345

\* ------------------------------------------------------------ generic
\* Option<T>: None is the empty sequence, Some(v) the one-element sequence.
None == << >>
Some(v) == <<v>>

Pow2(n) == 2 ^ n

RECURSIVE SumOver(_, _)
SumOver(f, S) ==
  IF S = {} THEN 0 ELSE LET x == CHOOSE y \in S : TRUE IN f[x] + SumOver(f, S \ {x})

\* str::contains: s occurs in v as a contiguous run (the empty s always does).
Contains(v, s) ==
  \E i \in 1..(Len(v) - Len(s) + 1) : SubSeq(v, i, i + Len(s) - 1) = s

\* HashMap::get(..).cloned()
MapGet(m, k) == IF k \in DOMAIN m THEN Some(m[k]) ELSE None

\* HashMap::insert: the map after the insertion.
MapInsert(m, k, v) == [j \in (DOMAIN m) \cup {k} |-> IF j = k THEN v ELSE m[j]]

\* The i-th (from 0) value of e.values(): the model iterates in key order (the
\* count and the yield points do not depend on the order HashMap chooses).
NthValue(m, i) ==
  m[CHOOSE k \in DOMAIN m : Cardinality({j \in DOMAIN m : j < k}) = i]

\* =========================================================================
\* The Store and the tasks that use it (store.rs; server.rs, Worker).
\* =========================================================================
\* The per-connection worker tasks.
Tasks == {1, 2, 3}

\* Keys and values the LC requests use, substrings the BE requests look for.
LcKeys == {1}
WriteVals == {<<"a">>, <<"b">>}
Subs == {<<"a">>}
\* The store as loaded before the server starts: n entries with keys 0..n-1.
\* The long store, whose scan runs through two yield points, is explored on one
\* executor thread (SpecYield); the runs on several threads (SpecStore) use the
\* short ones.
StoreLens == {0, 1, BigLen}
ShortLens == {1}
InitVal(k) == IF k % 2 = 0 THEN <<"a", "b">> ELSE <<"c">>
InitStore(n) == [k \in 0..(n - 1) |-> InitVal(k)]

BE == "BeRead"
LCR == "LcRead"
LCW == "LcWrite"
Kinds == {BE, LCR, LCW}
NoReq == [kind |-> "none", key |-> 0, val |-> << >>]
IsLc(r) == r.kind \in {LCR, LCW}

VARIABLES
  nthreads,     \* executor threads of the run
  store,        \* Store.store: the map behind the RwLock
  lockReaders,  \* RwLock: number of read leases held
  lockWriter,   \* RwLock: whether the write lease is held
  pc,           \* per task: idle | ready | wait | held | scan | done
  req,          \* per task: the request being executed
  snap,         \* per be_task: e, the cloned map
  idx,          \* per be_task: i of the scan loop
  freq,         \* per be_task: freq
  result,       \* per task: the value its operation returned
  holds,        \* per task: the lease it holds (none | read | write)
  runq,         \* the executor's queue of runnable tasks
  running,      \* per thread: the task it is polling (0: none)
  served,       \* per task: requests it has received
  ref,          \* history: the reference map, updated in lock-acquisition order
  expect,       \* history: what the reference says the operation returns
  sinceYield,   \* history: substring checks of a scan since its last yield
  waited,       \* history: per queued LC task, scan iterations of each task since it was queued
  passed,       \* history: the be_task started ahead of a queued LC task and has not yielded
  scanAtStart,  \* history: the scans in progress when this task was first polled
  wroteDuring   \* history: a write started and completed while this scan was in progress

VARIABLES
  conns_per_thr,  \* ClientThread.conns_per_thr
  remaining_work, \* ClientThread.remaining_work
  tasks_pending,  \* send_packets: tasks_pending
  ci,             \* send_packets: i, counted from 1
  cstatus,        \* per connection: Connection.status
  thr,            \* send_packets: run | ok | err | panic
  cerr,           \* the error send_packets returned
  latencies,      \* ClientThread.latencies: the classes pushed, in order
  link,           \* per connection: the stream is up | reset | closed (by the peer)
  wire,           \* per connection: bytes of the current request the socket accepted
  inbox,          \* per connection: bytes the peer sent and the client has not read
  answered,       \* per connection: the peer answered the current request
  faults,         \* resets and closes the peer has made
  segment,        \* bytes travel in whole segments of this size, or as the rest of a buffer
  submitted,      \* history: per connection, the classes of the requests it accepted
  completed,      \* history: per connection, the classes of its CompletedResponse events
  emitted,        \* history: the call of progress() the last step made and what it returned
  sent,           \* history: per connection, SentRequest events of its current request
  stamps          \* history: per connection, assignments to start_time in its current request

closedVars == <<conns_per_thr, remaining_work, tasks_pending, ci, cstatus, thr, cerr,
                latencies, link, wire, inbox, answered, faults, segment, submitted,
                completed, emitted, sent, stamps>>

VARIABLES
  o_conns,      \* open loop: number of connections of the thread (ClientThread.conns)
  in_flight,    \* per connection: Connection.in_flight, req_id to RequestState
  write_queue,  \* per connection: Connection.write_queue
  read_queue,   \* per connection: Connection.read_queue
  drop_count,   \* per connection: Connection.drop_count
  o_latencies,  \* per connection: Connection.latencies, the classes pushed in order
  t_drop_count, \* ClientThread.drop_count
  req_id,       \* ClientThread.req_id
  phase,        \* send_packets: where the poll loop stands
  o_thr,        \* send_packets: run | ok | err
  o_err,        \* the error send_packets returned
  o_link,       \* per connection: the stream is up | reset | closed (by the peer)
  o_wire,       \* per connection: bytes written that the peer has not consumed
  o_inbox,      \* per connection: bytes the peer sent and the client has not read
  o_faults,     \* resets and closes the peer has made
  issued,       \* history: requests generated
  reconnects    \* history: per connection, in_flight.len() at each reconnect that succeeded

openVars == <<o_conns, in_flight, write_queue, read_queue, drop_count, o_latencies,
              t_drop_count, req_id, phase, o_thr, o_err, o_link, o_wire, o_inbox,
              o_faults, issued, reconnects>>

VARIABLES
  num_threads,    \* OpenBench.num_threads
  req_id_shift,   \* ClientThread.req_id_shift, the same for every thread
  thread_req_id,  \* per thread index: ClientThread.req_id
  generated       \* history: per thread index, the req_ids of its requests in order

idVars == <<num_threads, req_id_shift, thread_req_id, generated>>

storeVars == <<nthreads, store, lockReaders, lockWriter, pc, req, snap, idx, freq,
               result, holds, runq, running, served, ref, expect, sinceYield,
               waited, passed, scanAtStart, wroteDuring>>

\* The closed-loop client when no client thread runs.
ClosedIdle ==
  /\ conns_per_thr = 0
  /\ remaining_work = 0
  /\ tasks_pending = 0
  /\ ci = 0
  /\ cstatus = << >>
  /\ thr = "ok"
  /\ cerr = << >>
  /\ latencies = << >>
  /\ link = << >>
  /\ wire = << >>
  /\ inbox = << >>
  /\ answered = << >>
  /\ faults = 0
  /\ segment = 0
  /\ submitted = << >>
  /\ completed = << >>
  /\ emitted = [from |-> "none", started |-> FALSE, out |-> "none", val |-> << >>]
  /\ sent = << >>
  /\ stamps = << >>

\* The open-loop client when no client thread runs.
OpenIdle ==
  /\ o_conns = 0
  /\ in_flight = << >>
  /\ write_queue = << >>
  /\ read_queue = << >>
  /\ drop_count = << >>
  /\ o_latencies = << >>
  /\ t_drop_count = 0
  /\ req_id = 0
  /\ phase = [at |-> "top", c |-> 0]
  /\ o_thr = "ok"
  /\ o_err = << >>
  /\ o_link = << >>
  /\ o_wire = << >>
  /\ o_inbox = << >>
  /\ o_faults = 0
  /\ issued = 0
  /\ reconnects = << >>

\* The id generators when no open-loop bench runs.
IdsIdle ==
  /\ num_threads = 0
  /\ req_id_shift = 0
  /\ thread_req_id = << >>
  /\ generated = << >>

\* The codec under test (packet.rs)
VARIABLES
  codec_dir,       \* what is under test: a "request", a "response" or a "raw" buffer
  codec_msg,       \* the message handed to serialize (none for a raw buffer)
  codec_buf,       \* the bytes handed to deserialize
  codec_as,        \* which deserialize was called: "request" or "response"
  codec_out,       \* what deserialize returned
  codec_pc         \* "message", "buffer", "done"

codecVars == <<codec_dir, codec_msg, codec_buf, codec_as, codec_out, codec_pc>>

\* The codec when nothing is being converted.
CodecIdle ==
  /\ codec_dir = "none"
  /\ codec_msg = << >>
  /\ codec_buf = << >>
  /\ codec_as = "none"
  /\ codec_out = << >>
  /\ codec_pc = "done"

\* The server (server.rs) and the main thread that starts it (main.rs)
VARIABLES
  main_pc,     \* main: "start" | "waiting" (in rx.recv) | "client" (the bench runs) | "panic"
  srv_pc,      \* the server thread: "none" | "init" | "bind" | "signal" | "accept" | "panic"
  listener,    \* "none" | "bound"
  channel,     \* messages waiting in the sync_channel
  signals,     \* history: sends of the readiness signal
  s_conn,      \* per connection: "none" | "pending" (connected, not yet accepted) | "accepted"
  s_link,      \* per connection, the client's end: "up" | "closed" | "reset"
  s_in,        \* per connection: bytes the client wrote and the worker has not read
  s_out,       \* history: per connection, the bytes the worker's writes were accepted for
  w_pc,        \* per connection, its worker: "none" | "receive" | "execute" | "send" | "dead"
  w_read_buf,  \* receive_request: read_buf
  w_req,       \* the request receive_request returned
  w_res,       \* send_response: response
  w_offset,    \* send_response: offset
  polled,      \* the worker the executor thread is running, 0 when it runs none
  s_store,     \* Store.store
  w_spin,      \* history: per worker, reads of no byte and writes of no byte in a row
  w_received,  \* history: per worker, the classes of the requests receive_request returned
  w_responded, \* history: per worker, the classes of the responses written in full
  s_sent,      \* history: requests the clients have written
  s_faults     \* history: closes and resets the clients have made

serverVars == <<main_pc, srv_pc, listener, channel, signals, s_conn, s_link, s_in, s_out,
                w_pc, w_read_buf, w_req, w_res, w_offset, polled, s_store, w_spin,
                w_received, w_responded, s_sent, s_faults>>

\* The server when no process has been started.
ServerIdle ==
  /\ main_pc = "none"
  /\ srv_pc = "none"
  /\ listener = "none"
  /\ channel = 0
  /\ signals = 0
  /\ s_conn = << >>
  /\ s_link = << >>
  /\ s_in = << >>
  /\ s_out = << >>
  /\ w_pc = << >>
  /\ w_read_buf = << >>
  /\ w_req = << >>
  /\ w_res = << >>
  /\ w_offset = << >>
  /\ polled = 0
  /\ s_store = << >>
  /\ w_spin = << >>
  /\ w_received = << >>
  /\ w_responded = << >>
  /\ s_sent = 0
  /\ s_faults = 0

\* The addresses of the clients' streams (Connection::new, Connection::reconnect)
VARIABLES
  a_loop,       \* which client the thread is: "none" | "closed" | "open"
  a_addr,       \* the port of the addr Connection::new was given
  a_stream,     \* per connection, Connection.stream: its local port, the port it is
                \* connected to, and whether the peer has reset it
  a_thr,        \* the thread: "run" | "err" (reconnect returned its error)
  a_reconnects  \* history: calls of reconnect

addrVars == <<a_loop, a_addr, a_stream, a_thr, a_reconnects>>

\* No client thread has been made.
AddrIdle ==
  /\ a_loop = "none"
  /\ a_addr = 0
  /\ a_stream = << >>
  /\ a_thr = "run"
  /\ a_reconnects = 0

otherThanStore == <<closedVars, openVars, idVars, codecVars, serverVars, addrVars>>
otherThanClosed == <<storeVars, openVars, idVars, codecVars, serverVars, addrVars>>
otherThanOpen == <<storeVars, closedVars, idVars, codecVars, serverVars, addrVars>>
otherThanIds == <<storeVars, closedVars, openVars, codecVars, serverVars, addrVars>>
otherThanCodec == <<storeVars, closedVars, openVars, idVars, serverVars, addrVars>>
otherThanServer == <<storeVars, closedVars, openVars, idVars, codecVars, addrVars>>
otherThanAddr == <<storeVars, closedVars, openVars, idVars, codecVars, serverVars>>
vars == <<storeVars, closedVars, openVars, idVars, codecVars, serverVars, addrVars>>

Zero == [t \in Tasks |-> 0]
InRunq(t) == \E i \in 1..Len(runq) : runq[i] = t
QueuedLc == {l \in Tasks : InRunq(l) /\ IsLc(req[l])}

TasksInit(threads, lens) ==
  /\ nthreads \in threads
  /\ \E n \in lens : store = InitStore(n) /\ ref = InitStore(n)
  /\ lockReaders = 0
  /\ lockWriter = FALSE
  /\ pc = [t \in Tasks |-> "idle"]
  /\ req = [t \in Tasks |-> NoReq]
  /\ snap = [t \in Tasks |-> << >>]
  /\ idx = Zero
  /\ freq = Zero
  /\ result = [t \in Tasks |-> None]
  /\ holds = [t \in Tasks |-> "none"]
  /\ runq = << >>
  /\ running = [th \in 1..MaxThreads |-> 0]
  /\ served = Zero
  /\ expect = [t \in Tasks |-> None]
  /\ sinceYield = Zero
  /\ waited = [t \in Tasks |-> Zero]
  /\ passed = [t \in Tasks |-> FALSE]
  /\ scanAtStart = [t \in Tasks |-> {}]
  /\ wroteDuring = [t \in Tasks |-> FALSE]

\* Store::new and DefaultSmolServer::init: the loaded store, idle workers.
StoreInit ==
  TasksInit(1..MaxThreads, ShortLens) /\ ClosedIdle /\ OpenIdle /\ IdsIdle /\ CodecIdle /\ ServerIdle
    /\ AddrIdle
YieldInit ==
  TasksInit({1}, StoreLens) /\ ClosedIdle /\ OpenIdle /\ IdsIdle /\ CodecIdle /\ ServerIdle
    /\ AddrIdle
\* The server when no request reaches it.
StoreIdle == TasksInit({1}, {0})

\* The requests a worker can receive.
Requests ==
  [kind : {BE}, key : {0}, val : Subs]
    \cup [kind : {LCR}, key : LcKeys, val : {<< >>}]
    \cup [kind : {LCW}, key : LcKeys, val : WriteVals]

\* Worker::run: receive_request returned; the task is runnable and will call
\* execute_task. The workers are interchangeable, so the model lets worker t
\* receive its first request only after the workers before it.
Spawn(t, r) ==
  /\ pc[t] = "idle"
  /\ SumOver(served, Tasks) < MaxReqs
  /\ \A u \in Tasks : u < t => served[u] > 0
  /\ pc' = [pc EXCEPT ![t] = "ready"]
  /\ req' = [req EXCEPT ![t] = r]
  /\ served' = [served EXCEPT ![t] = @ + 1]
  /\ runq' = Append(runq, t)
  /\ waited' = [waited EXCEPT ![t] = Zero]
  /\ sinceYield' = [sinceYield EXCEPT ![t] = 0]
  /\ passed' = [passed EXCEPT ![t] = FALSE]
  /\ wroteDuring' = [wroteDuring EXCEPT ![t] = FALSE]
  /\ result' = [result EXCEPT ![t] = None]
  /\ scanAtStart' = [scanAtStart EXCEPT ![t] = {}]
  /\ UNCHANGED otherThanStore
  /\ UNCHANGED <<nthreads, store, lockReaders, lockWriter, snap, idx, freq, holds,
                 running, ref, expect>>

\* The executor: an idle thread takes the task at the head of the queue.
Dispatch(th) ==
  /\ th <= nthreads
  /\ running[th] = 0
  /\ runq # << >>
  /\ LET t == Head(runq) IN
       /\ running' = [running EXCEPT ![th] = t]
       /\ runq' = Tail(runq)
       /\ waited' = [waited EXCEPT ![t] = Zero]
       /\ passed' = [passed EXCEPT ![t] =
                       /\ req[t].kind = BE
                       /\ pc[t] = "ready"
                       /\ \E l \in Tasks : l # t /\ l \in QueuedLc]
       /\ sinceYield' = [sinceYield EXCEPT ![t] = 0]
       /\ scanAtStart' = [scanAtStart EXCEPT ![t] =
                            IF pc[t] = "ready" THEN {b \in Tasks : pc[b] = "scan"} ELSE @]
  /\ UNCHANGED otherThanStore
  /\ UNCHANGED <<nthreads, store, lockReaders, lockWriter, pc, req, snap, idx, freq,
                 result, holds, served, ref, expect, wroteDuring>>

\* RwLock: whether a lease of the kind the request needs can be taken now.
CanRead == ~lockWriter
CanWriteBesideReaders == ~lockWriter
CanWrite == ~lockWriter /\ lockReaders = 0
CanLock(r) == IF r.kind = LCW THEN CanWrite ELSE CanRead

\* The count be_task must return for snapshot m and substring s.
CountIn(m, s) == Cardinality({k \in DOMAIN m : Contains(m[k], s)})

\* What the reference map answers to the LC request r.
RefAnswer(m, r) == MapGet(m, r.key)

\* self.store.read().await / self.store.write().await: the lease is taken when
\* the lock allows it, otherwise the task is left pending and the thread is free.
Acquire(th) ==
  LET t == running[th] IN
  /\ th <= nthreads
  /\ t # 0
  /\ pc[t] = "ready"
  /\ IF CanLock(req[t])
       THEN /\ pc' = [pc EXCEPT ![t] = "held"]
            /\ holds' = [holds EXCEPT ![t] = IF req[t].kind = LCW THEN "write" ELSE "read"]
            /\ lockReaders' = IF req[t].kind = LCW THEN lockReaders ELSE lockReaders + 1
            /\ lockWriter' = (req[t].kind = LCW)
            /\ expect' = [expect EXCEPT ![t] =
                            IF IsLc(req[t]) THEN RefAnswer(ref, req[t]) ELSE @]
            /\ ref' = IF req[t].kind = LCW THEN MapInsert(ref, req[t].key, req[t].val) ELSE ref
            /\ UNCHANGED running
       ELSE /\ pc' = [pc EXCEPT ![t] = "wait"]
            /\ running' = [running EXCEPT ![th] = 0]
            /\ UNCHANGED <<holds, lockReaders, lockWriter, expect, ref>>
  /\ passed' = [passed EXCEPT ![t] = passed[t] /\ CanLock(req[t])]
  /\ UNCHANGED otherThanStore
  /\ UNCHANGED <<nthreads, store, req, snap, idx, freq, result, runq, served,
                 sinceYield, waited, scanAtStart, wroteDuring>>

\* A wake-up that marks the task runnable and never queues it
WakeUnqueued(t) ==
  /\ pc[t] = "wait"
  /\ CanLock(req[t])
  /\ pc' = [pc EXCEPT ![t] = "ready"]
  /\ UNCHANGED otherThanStore
  /\ UNCHANGED <<nthreads, store, lockReaders, lockWriter, req, snap, idx, freq, result,
                 holds, running, served, ref, expect, sinceYield, passed, scanAtStart,
                 wroteDuring, runq, waited>>

\* The lock's wake-up: a pending task is made runnable once the lock can be taken.
Wake(t) ==
  /\ pc[t] = "wait"
  /\ CanLock(req[t])
  /\ pc' = [pc EXCEPT ![t] = "ready"]
  /\ runq' = Append(runq, t)
  /\ waited' = [waited EXCEPT ![t] = Zero]
  /\ UNCHANGED otherThanStore
  /\ UNCHANGED <<nthreads, store, lockReaders, lockWriter, req, snap, idx, freq, result,
                 holds, running, served, ref, expect, sinceYield, passed, scanAtStart,
                 wroteDuring>>

\* The task has finished its operation: execute_task returns, the worker goes on
\* to send_response and leaves the thread.
Finish(th, t, v) ==
  /\ pc' = [pc EXCEPT ![t] = "done"]
  /\ result' = [result EXCEPT ![t] = v]
  /\ running' = [running EXCEPT ![th] = 0]

\* lc_read_task: get(&key).cloned() under the read lease, which is then dropped.
LcReadOp(th) ==
  LET t == running[th] IN
  /\ th <= nthreads
  /\ t # 0
  /\ pc[t] = "held"
  /\ req[t].kind = LCR
  /\ Finish(th, t, MapGet(store, req[t].key))
  /\ holds' = [holds EXCEPT ![t] = "none"]
  /\ lockReaders' = lockReaders - 1
  /\ UNCHANGED otherThanStore
  /\ UNCHANGED <<nthreads, store, lockWriter, req, snap, idx, freq, runq, served, ref,
                 expect, sinceYield, waited, passed, scanAtStart, wroteDuring>>

\* lc_write_task: insert(key, value) under the write lease, which is then dropped;
\* the previous value is returned.
LcWriteOp(th) ==
  LET t == running[th] IN
  /\ th <= nthreads
  /\ t # 0
  /\ pc[t] = "held"
  /\ req[t].kind = LCW
  /\ Finish(th, t, MapGet(store, req[t].key))
  /\ store' = MapInsert(store, req[t].key, req[t].val)
  /\ holds' = [holds EXCEPT ![t] = "none"]
  /\ lockWriter' = FALSE
  /\ wroteDuring' = [b \in Tasks |->
                       wroteDuring[b] \/ (pc[b] = "scan" /\ b \in scanAtStart[t])]
  /\ UNCHANGED otherThanStore
  /\ UNCHANGED <<nthreads, lockReaders, req, snap, idx, freq, runq, served, ref,
                 expect, sinceYield, waited, passed, scanAtStart>>

\* The lease be_task holds once the map is cloned: drop(s) releases it.
KeepLease(h) == h
DropLease(h) == "none"

\* be_task up to the loop: e = s.clone(), drop(s), freq = 0.
BeClone(th) ==
  LET t == running[th] IN
  /\ th <= nthreads
  /\ t # 0
  /\ pc[t] = "held"
  /\ req[t].kind = BE
  /\ snap' = [snap EXCEPT ![t] = store]
  /\ expect' = [expect EXCEPT ![t] = Some(CountIn(store, req[t].val))]
  /\ holds' = [holds EXCEPT ![t] = DropLease(@)]
  /\ lockReaders' = IF holds'[t] = "none" THEN lockReaders - 1 ELSE lockReaders
  /\ idx' = [idx EXCEPT ![t] = 0]
  /\ freq' = [freq EXCEPT ![t] = 0]
  /\ pc' = [pc EXCEPT ![t] = "scan"]
  /\ UNCHANGED otherThanStore
  /\ UNCHANGED <<nthreads, store, lockWriter, req, result, runq, running, served, ref,
                 sinceYield, waited, passed, scanAtStart, wroteDuring>>

\* yield_now(): the task is woken at once and goes to the back of the queue.
RequeueFront(q, t) == <<t>> \o q
Requeue(q, t) == Append(q, t)

\* (i & ((1 << YIELD_FREQ) - 1)) == 0
SparseYieldPoint(i) == i % Pow2(YIELD_FREQ + 1) = 0
YieldPoint(i) == i % Pow2(YIELD_FREQ) = 0

\* The map the scan reads its i-th value from: the clone e.
LiveMap(t) == store
ScannedMap(t) == snap[t]

\* One iteration of the scan loop: the substring check on the i-th value, then
\* yield_now().await at a yield point (the task goes to the back of the queue).
BeIter(th) ==
  LET t == running[th]
      i == idx[t]
      hit == Contains(NthValue(ScannedMap(t), i), req[t].val)
  IN
  /\ th <= nthreads
  /\ t # 0
  /\ pc[t] = "scan"
  /\ i < Cardinality(DOMAIN snap[t])
  /\ freq' = [freq EXCEPT ![t] = IF hit THEN @ + 1 ELSE @]
  /\ idx' = [idx EXCEPT ![t] = i + 1]
  /\ sinceYield' = [sinceYield EXCEPT ![t] = @ + 1]
  /\ waited' = [l \in Tasks |->
                  IF l \in QueuedLc THEN [waited[l] EXCEPT ![t] = @ + 1] ELSE waited[l]]
  /\ IF YieldPoint(i)
       THEN /\ runq' = Requeue(runq, t)
            /\ running' = [running EXCEPT ![th] = 0]
            /\ passed' = [passed EXCEPT ![t] = FALSE]
       ELSE UNCHANGED <<runq, running, passed>>
  /\ UNCHANGED otherThanStore
  /\ UNCHANGED <<nthreads, store, lockReaders, lockWriter, pc, req, snap, result, holds,
                 served, ref, expect, scanAtStart, wroteDuring>>

\* The loop is over: be_task returns freq (and drops whatever it still holds).
BeReturn(th) ==
  LET t == running[th] IN
  /\ th <= nthreads
  /\ t # 0
  /\ pc[t] = "scan"
  /\ idx[t] = Cardinality(DOMAIN snap[t])
  /\ Finish(th, t, Some(freq[t]))
  /\ holds' = [holds EXCEPT ![t] = "none"]
  /\ lockReaders' = IF holds[t] = "read" THEN lockReaders - 1 ELSE lockReaders
  /\ UNCHANGED otherThanStore
  /\ UNCHANGED <<nthreads, store, lockWriter, req, snap, idx, freq, runq, served, ref,
                 expect, sinceYield, waited, passed, scanAtStart, wroteDuring>>

\* Worker::run: the response is sent and the worker waits for its next request.
Respond(t) ==
  /\ pc[t] = "done"
  /\ pc' = [pc EXCEPT ![t] = "idle"]
  /\ req' = [req EXCEPT ![t] = NoReq]
  /\ snap' = [snap EXCEPT ![t] = << >>]
  /\ idx' = [idx EXCEPT ![t] = 0]
  /\ freq' = [freq EXCEPT ![t] = 0]
  /\ result' = [result EXCEPT ![t] = None]
  /\ expect' = [expect EXCEPT ![t] = None]
  /\ sinceYield' = [sinceYield EXCEPT ![t] = 0]
  /\ passed' = [passed EXCEPT ![t] = FALSE]
  /\ scanAtStart' = [scanAtStart EXCEPT ![t] = {}]
  /\ wroteDuring' = [wroteDuring EXCEPT ![t] = FALSE]
  /\ UNCHANGED otherThanStore
  /\ UNCHANGED <<nthreads, store, lockReaders, lockWriter, holds, runq, running, served,
                 ref, waited>>

StoreNext ==
  \/ \E t \in Tasks, r \in Requests : Spawn(t, r)
  \/ \E th \in 1..MaxThreads : Dispatch(th)
  \/ \E th \in 1..MaxThreads : Acquire(th)
  \/ \E t \in Tasks : Wake(t)
  \/ \E th \in 1..MaxThreads : LcReadOp(th)
  \/ \E th \in 1..MaxThreads : LcWriteOp(th)
  \/ \E th \in 1..MaxThreads : BeClone(th)
  \/ \E th \in 1..MaxThreads : BeIter(th)
  \/ \E th \in 1..MaxThreads : BeReturn(th)
  \/ \E t \in Tasks : Respond(t)

\* On one thread no lease is held when a task leaves the thread, so no task is
\* ever left pending on the lock and Wake has nothing to wake.
YieldNext ==
  \/ \E t \in Tasks, r \in Requests : Spawn(t, r)
  \/ Dispatch(1)
  \/ Acquire(1)
  \/ LcReadOp(1)
  \/ LcWriteOp(1)
  \/ BeClone(1)
  \/ BeIter(1)
  \/ BeReturn(1)
  \/ \E t \in Tasks : Respond(t)

SpecStore == StoreInit /\ [][StoreNext]_vars

\* What thread th does with the task it is polling.
Poll(th) ==
  Acquire(th) \/ LcReadOp(th) \/ LcWriteOp(th) \/ BeClone(th) \/ BeIter(th) \/ BeReturn(th)

\* The executor's threads never stop: a thread with nothing to poll takes the
\* head of a queue that is not empty, a thread polls the task it has taken,
\* and the lock delivers its wake-ups.
StoreFairness ==
  /\ \A th \in 1..MaxThreads : WF_vars(Dispatch(th)) /\ WF_vars(Poll(th))
  /\ \A t \in Tasks : WF_vars(Wake(t))

SpecStoreFair == StoreInit /\ [][StoreNext]_vars /\ StoreFairness
SpecYield == YieldInit /\ [][YieldNext]_vars

\* =========================================================================
\* The wire codec (packet.rs). Buffers are sequences of bytes; a String is the
\* sequence of its bytes. The numbers of the model stay below 2^31, so the four
\* high bytes of a big-endian u64 are 0.
\* =========================================================================
\* u64::to_be_bytes
BeBytes(v) == [i \in 1..8 |-> IF i <= 4 THEN 0 ELSE (v \div (256 ^ (8 - i))) % 256]

\* u64::from_be_bytes of the 8 bytes b
RECURSIVE FromBeAcc(_, _)
FromBeAcc(b, acc) == IF b = << >> THEN acc ELSE FromBeAcc(Tail(b), acc * 256 + Head(b))
FromBe(b) == FromBeAcc(b, 0)

\* &b[from..to] with 0-based from, exclusive to
Slice(b, from, to) == SubSeq(b, from + 1, to)

Ok(v) == [tag |-> "ok", val |-> v]
Err(e) == [tag |-> "err", val |-> e]
Panic == [tag |-> "panic", val |-> << >>]

\* RequestType::value / ResponseType::value
TypeValue(k) == CASE k = BE -> BE_BYTE [] k = LCR -> LC_READ_BYTE [] k = LCW -> LC_WRITE_BYTE

\* from_value taking every unknown byte for the kind of a write
TypeFromValueLenient(v) ==
  CASE v = BE_BYTE -> Ok(BE)
    [] v = LC_READ_BYTE -> Ok(LCR)
    [] OTHER -> Ok(LCW)

\* RequestType::from_value / ResponseType::from_value
TypeFromValue(v) ==
  CASE v = BE_BYTE -> Ok(BE)
    [] v = LC_READ_BYTE -> Ok(LCR)
    [] v = LC_WRITE_BYTE -> Ok(LCW)
    [] OTHER -> Err(<<"InvalidMessageType", v>>)

\* RequestType::expected_len
RequestExpectedLen(k) == IF k = LCR THEN Some(2 * 8) ELSE None

\* ResponseType::from_request
FromRequest(k) == k

\* check_length
CheckLength(len, exp) == IF len < exp THEN Err(<<"PacketTooShort">>) ELSE Ok(<< >>)

\* usize from the 8 length bytes of a header. A value below 2^31 is itself; one
\* of the nine values from 2^64 - 9 up, whose sum with the 9 header bytes leaves
\* usize, is the negative number it wraps to; any other value is Huge, which the
\* code only compares with lengths of buffers.
Huge == Pow2(30)
IsSmall(b) == (\A i \in 1..4 : b[i] = 0) /\ b[5] < 128
PayloadLen(b) ==
  IF IsSmall(b) THEN FromBe(b)
  ELSE IF (\A i \in 1..7 : b[i] = 255) /\ b[8] >= 256 - (1 + LEN_LENGTH) THEN b[8] - 256
  ELSE Huge

\* u64::from_be_bytes of a payload field (req_id, id, freq): a value of 2^31 or
\* more is stood for by its eight bytes.
U64(b) == IF IsSmall(b) THEN FromBe(b) ELSE b

\* String::from_utf8_lossy: a well-formed sequence of one to four bytes is kept,
\* a lead byte with too few continuation bytes is replaced with them by U+FFFD,
\* so is any other byte. (The narrower second-byte ranges after E0, ED, F0 and
\* F4 are not distinguished.)
Replacement == <<239, 191, 189>>
IsContinuation(x) == x >= 128 /\ x <= 191
Utf8Need(x) ==
  IF x < 128 THEN 0
  ELSE IF x >= 194 /\ x <= 223 THEN 1
  ELSE IF x >= 224 /\ x <= 239 THEN 2
  ELSE IF x >= 240 /\ x <= 244 THEN 3
  ELSE -1
RECURSIVE Utf8Have(_, _)
Utf8Have(b, need) ==
  IF need = 0 \/ b = << >> \/ ~IsContinuation(Head(b)) THEN 0
  ELSE 1 + Utf8Have(Tail(b), need - 1)
RECURSIVE Utf8Lossy(_)
Utf8Lossy(b) ==
  IF b = << >> THEN << >>
  ELSE LET need == Utf8Need(Head(b))
           have == IF need < 0 THEN 0 ELSE Utf8Have(Tail(b), need)
       IN IF need >= 0 /\ have = need
            THEN SubSeq(b, 1, 1 + need) \o Utf8Lossy(SubSeq(b, 2 + need, Len(b)))
            ELSE Replacement \o Utf8Lossy(SubSeq(b, 2 + have, Len(b)))

\* MessageHeader::deserialize: kind and payload_len, the length checked against
\* RequestType::expected_len whichever direction the frame travels.
MessageHeaderDeserialize(packet) ==
  IF CheckLength(Len(packet), 1 + LEN_LENGTH).tag = "err"
    THEN Err(<<"PacketTooShort">>)
    ELSE LET kind == TypeFromValue(packet[1])
             payload_len == PayloadLen(Slice(packet, 1, LEN_LENGTH + 1))
         IN IF kind.tag = "err" THEN kind
            ELSE IF /\ RequestExpectedLen(kind.val) # None
                    /\ RequestExpectedLen(kind.val)[1] # payload_len
              THEN Err(<<"UnexpectedLength", payload_len, RequestExpectedLen(kind.val)[1]>>)
              ELSE Ok([kind |-> kind.val, payload_len |-> payload_len])

\* Request::serialize
RequestSerialize(m) ==
  LET payload == CASE m.kind = BE -> BeBytes(m.req_id) \o m.substring
                   [] m.kind = LCR -> BeBytes(m.req_id) \o BeBytes(m.id)
                   [] m.kind = LCW -> BeBytes(m.req_id) \o BeBytes(m.id) \o m.username
  IN <<TypeValue(m.kind)>> \o BeBytes(Len(payload)) \o payload

\* Response::serialize
ResponseSerialize(m) ==
  LET payload == CASE m.kind = BE -> BeBytes(m.req_id) \o BeBytes(m.freq)
                   [] OTHER -> BeBytes(m.req_id) \o
                                 (IF m.username = None THEN <<NONE_BYTE>>
                                  ELSE <<SOME_BYTE>> \o m.username[1])
  IN <<TypeValue(m.kind)>> \o BeBytes(Len(payload)) \o payload

\* Request::deserialize. A payload_len whose sum with the header length leaves
\* usize panics on the addition or, where the addition wraps, on the slice whose
\* end lies before its start. PayloadHeader::deserialize ignores the result of
\* its check_length and slices payload[0..8]; so does the BeRead arm with its
\* check_length(rest, 1).
RequestDeserialize(packet) ==
  LET header == MessageHeaderDeserialize(packet) IN
  IF header.tag = "err" THEN header
  ELSE
    LET hlen == 1 + LEN_LENGTH
        plen == header.val.payload_len
    IN
    IF plen < 0 THEN Panic
    ELSE IF CheckLength(Len(packet), hlen + plen).tag = "err" THEN Err(<<"PacketTooShort">>)
    ELSE
      LET payload == Slice(packet, hlen, hlen + plen) IN
      IF Len(payload) < LEN_LENGTH THEN Panic
      ELSE
        LET header_req_id == U64(Slice(payload, 0, LEN_LENGTH))
            rest == Slice(payload, LEN_LENGTH, Len(payload))
            kind == header.val.kind
        IN
        CASE kind = BE ->
               Ok([kind |-> BE, req_id |-> header_req_id, substring |-> Utf8Lossy(rest),
                   id |-> 0, username |-> << >>])
          [] kind = LCR ->
               IF Len(rest) # 8 THEN Panic
               ELSE Ok([kind |-> LCR, req_id |-> header_req_id, substring |-> << >>,
                        id |-> U64(rest), username |-> << >>])
          [] kind = LCW ->
               IF CheckLength(Len(rest), LEN_LENGTH + 1).tag = "err"
                 THEN Err(<<"PacketTooShort">>)
                 ELSE Ok([kind |-> LCW, req_id |-> header_req_id, substring |-> << >>,
                          id |-> U64(Slice(rest, 0, LEN_LENGTH)),
                          username |-> Utf8Lossy(Slice(rest, LEN_LENGTH, Len(rest)))])

\* Response::deserialize, with the same header, length check and payload header
\* as Request::deserialize; the option tag is read from payload[0].
ResponseDeserialize(packet) ==
  LET header == MessageHeaderDeserialize(packet) IN
  IF header.tag = "err" THEN header
  ELSE
    LET hlen == 1 + LEN_LENGTH
        plen == header.val.payload_len
    IN
    IF plen < 0 THEN Panic
    ELSE IF CheckLength(Len(packet), hlen + plen).tag = "err" THEN Err(<<"PacketTooShort">>)
    ELSE
      LET payload == Slice(packet, hlen, hlen + plen) IN
      IF Len(payload) < LEN_LENGTH THEN Panic
      ELSE
        LET header_req_id == U64(Slice(payload, 0, LEN_LENGTH))
            rest == Slice(payload, LEN_LENGTH, Len(payload))
            kind == FromRequest(header.val.kind)
        IN
        IF kind = BE
          THEN IF Len(rest) # 8 THEN Panic
               ELSE Ok([kind |-> BE, req_id |-> header_req_id, freq |-> U64(rest),
                        username |-> None])
          ELSE IF CheckLength(Len(rest), 2).tag = "err" THEN Err(<<"PacketTooShort">>)
               ELSE IF payload[1] = NONE_BYTE
                 THEN Ok([kind |-> kind, req_id |-> header_req_id, freq |-> 0, username |-> None])
               ELSE IF payload[1] = SOME_BYTE
                 THEN Ok([kind |-> kind, req_id |-> header_req_id, freq |-> 0,
                          username |-> Some(Utf8Lossy(Slice(rest, 1, Len(rest))))])
               ELSE Err(<<"UnexpectedOptionType", payload[1]>>)

\* =========================================================================
\* The closed-loop client (client.rs): one ClientThread, its connections, and
\* the peer at the other end of each stream.
\* =========================================================================
NoRequest == [kind |-> "none", req_id |-> 0, substring |-> << >>, id |-> 0, username |-> << >>]

\* Request::random for each class: req_id 0, a SUBSTRING_LEN-byte substring
\* ("abc"), an id below CAPACITY, a username of fewer than 10 bytes ("al").
ClientRequests ==
  { [NoRequest EXCEPT !.kind = BE, !.substring = <<97, 98, 99>>],
    [NoRequest EXCEPT !.kind = LCR, !.id = 5],
    [NoRequest EXCEPT !.kind = LCW, !.id = 5, !.username = <<97, 108>>] }

\* The responses execute_task gives a request of class k: a count, or the
\* username at the key: none, "u5", or the seven bytes "user005".
Answers(k) ==
  IF k = BE
    THEN {[kind |-> BE, req_id |-> 0, freq |-> 1, username |-> None]}
    ELSE {[kind |-> k, req_id |-> 0, freq |-> 0, username |-> u] :
            u \in {None, Some(<<117, 53>>), Some(<<117, 115, 101, 114, 48, 48, 53>>)}}

\* ConnectionStatus
Ready ==
  [kind |-> "Ready", req |-> "none", started |-> FALSE, write_buf |-> << >>,
   offset |-> 0, read_buf |-> << >>, expected_len |-> None]
WritingRequest(k, buf) ==
  [Ready EXCEPT !.kind = "WritingRequest", !.req = k, !.write_buf = buf]
ReadingResponse(k) ==
  [Ready EXCEPT !.kind = "ReadingResponse", !.req = k, !.started = TRUE]

\* A call of progress(): the status it was made in, whether start_time was set
\* then, and the Progress (or Err, or panic) it came back with.
Call(st, out, val) == [from |-> st.kind, started |-> st.started, out |-> out, val |-> val]
NoCall == [from |-> "none", started |-> FALSE, out |-> "none", val |-> << >>]

ThreadInit(conns, seg) ==
  /\ conns_per_thr \in conns
  /\ segment = seg
  /\ remaining_work \in 0..MaxWork
  /\ tasks_pending = 0
  /\ ci = 1
  /\ cstatus = [c \in 1..conns_per_thr |-> Ready]
  /\ thr = "run"
  /\ cerr = << >>
  /\ latencies = << >>
  /\ link = [c \in 1..conns_per_thr |-> "up"]
  /\ wire = [c \in 1..conns_per_thr |-> << >>]
  /\ inbox = [c \in 1..conns_per_thr |-> << >>]
  /\ answered = [c \in 1..conns_per_thr |-> FALSE]
  /\ faults = 0
  /\ submitted = [c \in 1..conns_per_thr |-> << >>]
  /\ completed = [c \in 1..conns_per_thr |-> << >>]
  /\ emitted = NoCall
  /\ sent = [c \in 1..conns_per_thr |-> 0]
  /\ stamps = [c \in 1..conns_per_thr |-> 0]
  /\ StoreIdle
  /\ OpenIdle
  /\ IdsIdle
  /\ CodecIdle
  /\ ServerIdle
  /\ AddrIdle

\* A write that takes the time and reports SentRequest whenever it succeeds
ProgressWriteRestamp(st, n) ==
  [status |-> IF n = Len(st.write_buf)
                THEN ReadingResponse(FromRequest(st.req))
                ELSE [st EXCEPT !.started = TRUE, !.offset = @ + n],
   stamp |-> 1,
   out |-> "SentRequest",
   val |-> << >>]

\* Connection::progress, the WritingRequest arm after write returned Ok(n).
ProgressWrite(st, n) ==
  LET req_bytes == Len(st.write_buf)
      next == IF n = req_bytes
                THEN ReadingResponse(FromRequest(st.req))
                ELSE [st EXCEPT !.started = TRUE, !.offset = @ + n]
      was_started == st.started
  IN [status |-> next,
      stamp |-> IF ~was_started THEN 1 ELSE 0,
      out |-> IF was_started THEN "MadeProgress" ELSE "SentRequest",
      val |-> << >>]

\* A reset reported for a request that was never written: in_flight is true
ProgressResetInFlight(st) ==
  [status |-> st, out |-> "ConnectionReset", val |-> TRUE]

\* Connection::progress when write or read failed with ConnectionReset:
\* ConnectionReset(start_time.is_some()) in WritingRequest, ConnectionReset(true)
\* in ReadingResponse.
ProgressReset(st) ==
  [status |-> st,
   out |-> "ConnectionReset",
   val |-> IF st.kind = "WritingRequest" THEN st.started ELSE TRUE]

\* A read that keeps the bytes and examines nothing of them
ReadFrameUnexamined(st, bytes) ==
  [status |-> [st EXCEPT !.read_buf = @ \o bytes], out |-> "MadeProgress", val |-> << >>]

\* The bytes a read returned are added to read_buf and the frame is examined:
\* the code of Connection::progress (ReadingResponse arm) and, line for line,
\* of the open-loop progress_reads.
ReadFrame(st, bytes) ==
  LET check_type == st.read_buf = << >>
      read_buf == st.read_buf \o bytes
      packet_type == TypeFromValue(read_buf[1])
      grown == [st EXCEPT !.read_buf = read_buf]
      expected_len == IF st.expected_len # None THEN st.expected_len
                      ELSE IF Len(read_buf) < 1 + LEN_LENGTH THEN None
                      ELSE Some(FromBe(Slice(read_buf, 1, 1 + LEN_LENGTH)))
      sized == [grown EXCEPT !.expected_len = expected_len]
  IN
  IF packet_type.tag = "err"
    THEN [status |-> grown, out |-> "Err", val |-> packet_type.val]
  ELSE IF check_type /\ st.req # packet_type.val
    THEN [status |-> grown, out |-> "Err",
          val |-> <<"UnexpectedMessageType", st.req, packet_type.val>>]
  ELSE IF expected_len = None
    THEN [status |-> grown, out |-> "MadeProgress", val |-> << >>]
  ELSE
    LET total_exp_len == 1 + LEN_LENGTH + expected_len[1] IN
    IF Len(read_buf) < total_exp_len
      THEN [status |-> sized, out |-> "MadeProgress", val |-> << >>]
    ELSE IF Len(read_buf) = total_exp_len
      THEN LET res == ResponseDeserialize(read_buf) IN
           IF res.tag = "err" THEN [status |-> sized, out |-> "Err", val |-> res.val]
           ELSE IF res.tag = "panic" THEN [status |-> sized, out |-> "Panic", val |-> << >>]
           ELSE [status |-> sized, out |-> "CompletedResponse", val |-> packet_type.val]
    ELSE [status |-> sized, out |-> "Err",
          val |-> <<"UnexpectedLength", Len(read_buf), total_exp_len>>]

\* Connection::progress, the ReadingResponse arm after read returned bytes: a
\* complete response puts the connection back in Ready.
ProgressRead(st, bytes) ==
  LET p == ReadFrame(st, bytes) IN
  IF p.out = "CompletedResponse" THEN [p EXCEPT !.status = Ready] ELSE p

\* send_packets: the loop condition
Looping == thr = "run" /\ (remaining_work > 0 \/ tasks_pending > 0)

\* i = (i + 1) % conns_per_thr, with i counted from 1
Advance == ci' = (ci % conns_per_thr) + 1

\* A completion or an in-flight reset that leaves tasks_pending as it was
KeepPending == thr' = thr /\ UNCHANGED tasks_pending

\* tasks_pending -= 1 on a usize: below zero the subtraction panics.
Decrement ==
  IF tasks_pending = 0
    THEN thr' = "panic" /\ UNCHANGED tasks_pending
    ELSE thr' = thr /\ tasks_pending' = tasks_pending - 1

\* One iteration on a Ready connection with work remaining: the request is
\* generated and progress moves the connection to WritingRequest.
StepAccept(m) ==
  /\ Looping
  /\ cstatus[ci].kind = "Ready"
  /\ remaining_work > 0
  /\ remaining_work' = remaining_work - 1
  /\ cstatus' = [cstatus EXCEPT ![ci] = WritingRequest(m.kind, RequestSerialize(m))]
  /\ submitted' = [submitted EXCEPT ![ci] = Append(@, m.kind)]
  /\ wire' = [wire EXCEPT ![ci] = << >>]
  /\ answered' = [answered EXCEPT ![ci] = FALSE]
  /\ Advance
  /\ UNCHANGED <<segment, conns_per_thr, tasks_pending, thr, cerr, latencies, link, inbox, faults,
                 completed>>
  /\ emitted' = Call(cstatus[ci], "MadeProgress", << >>)
  /\ sent' = [sent EXCEPT ![ci] = 0]
  /\ stamps' = [stamps EXCEPT ![ci] = 0]
  /\ UNCHANGED otherThanClosed

\* One iteration on a Ready connection with no work remaining: Idle.
StepIdle ==
  /\ Looping
  /\ cstatus[ci].kind = "Ready"
  /\ remaining_work = 0
  /\ Advance
  /\ UNCHANGED <<segment, conns_per_thr, remaining_work, tasks_pending, cstatus, thr, cerr, latencies,
                 link, wire, inbox, answered, faults, submitted, completed>>
  /\ emitted' = Call(cstatus[ci], "Idle", << >>)
  /\ UNCHANGED <<sent, stamps>>
  /\ UNCHANGED otherThanClosed

\* The sizes in which len waiting bytes can move: whole segments, or all of them.
PartsOf(seg, len) == {n \in 1..len : n % seg = 0 \/ n = len}
Parts(len) == PartsOf(segment, len)

\* What write can accept of the slice write_buf[offset..]: any positive part of
\* it, and nothing of an empty slice.
Acceptable(st) ==
  IF st.offset >= Len(st.write_buf) THEN {0}
  ELSE Parts(Len(st.write_buf) - st.offset)

\* One iteration on a WritingRequest connection whose write returned Ok(n).
StepWrite(n) ==
  /\ Looping
  /\ cstatus[ci].kind = "WritingRequest"
  /\ link[ci] = "up"
  /\ n \in Acceptable(cstatus[ci])
  /\ LET p == ProgressWrite(cstatus[ci], n) IN
       /\ cstatus' = [cstatus EXCEPT ![ci] = p.status]
       /\ tasks_pending' = IF p.out = "SentRequest" THEN tasks_pending + 1 ELSE tasks_pending
  /\ wire' = [wire EXCEPT ![ci] =
                @ \o SubSeq(cstatus[ci].write_buf, cstatus[ci].offset + 1,
                            cstatus[ci].offset + n)]
  /\ Advance
  /\ UNCHANGED <<segment, conns_per_thr, remaining_work, thr, cerr, latencies, link, inbox,
                 answered, faults, submitted, completed>>
  /\ LET p == ProgressWrite(cstatus[ci], n) IN
       /\ emitted' = Call(cstatus[ci], p.out, p.val)
       /\ sent' = [sent EXCEPT ![ci] = @ + (IF p.out = "SentRequest" THEN 1 ELSE 0)]
       /\ stamps' = [stamps EXCEPT ![ci] = @ + p.stamp]
  /\ UNCHANGED otherThanClosed

\* One iteration whose write or read returned WouldBlock: a write when the
\* socket takes nothing now, a read when nothing has arrived.
StepWouldBlock ==
  /\ Looping
  /\ link[ci] = "up"
  /\ \/ cstatus[ci].kind = "WritingRequest"
     \/ cstatus[ci].kind = "ReadingResponse" /\ inbox[ci] = << >>
  /\ Advance
  /\ UNCHANGED <<segment, conns_per_thr, remaining_work, tasks_pending, cstatus, thr, cerr, latencies,
                 link, wire, inbox, answered, faults, submitted, completed>>
  /\ emitted' = Call(cstatus[ci], "WouldBlock", << >>)
  /\ UNCHANGED <<sent, stamps>>
  /\ UNCHANGED otherThanClosed

\* A reconnect after which the request the reset met is generated again
StepResetResends(connected) ==
  /\ Looping
  /\ cstatus[ci].kind \in {"WritingRequest", "ReadingResponse"}
  /\ link[ci] = "reset"
  /\ IF connected
       THEN /\ cstatus' = [cstatus EXCEPT ![ci] = Ready]
            /\ link' = [link EXCEPT ![ci] = "up"]
            /\ wire' = [wire EXCEPT ![ci] = << >>]
            /\ inbox' = [inbox EXCEPT ![ci] = << >>]
            /\ answered' = [answered EXCEPT ![ci] = FALSE]
            /\ IF ProgressReset(cstatus[ci]).val THEN Decrement ELSE UNCHANGED <<thr, tasks_pending>>
            /\ cerr' = cerr
            /\ Advance
       ELSE /\ thr' = "err"
            /\ cerr' = <<"Io">>
            /\ UNCHANGED <<cstatus, link, wire, inbox, answered, tasks_pending, ci>>
  /\ remaining_work' = IF connected THEN remaining_work + 1 ELSE remaining_work
  /\ UNCHANGED <<segment, conns_per_thr, latencies, faults, submitted, completed>>
  /\ emitted' = Call(cstatus[ci], "ConnectionReset", ProgressReset(cstatus[ci]).val)
  /\ IF connected
       THEN /\ sent' = [sent EXCEPT ![ci] = 0]
            /\ stamps' = [stamps EXCEPT ![ci] = 0]
       ELSE UNCHANGED <<sent, stamps>>
  /\ UNCHANGED otherThanClosed

\* One iteration whose write or read returned ConnectionReset: progress reports
\* ConnectionReset(in_flight) and send_packets reconnects. A failed connect
\* returns the error before anything is changed.
StepReset(connected) ==
  /\ Looping
  /\ cstatus[ci].kind \in {"WritingRequest", "ReadingResponse"}
  /\ link[ci] = "reset"
  /\ IF connected
       THEN /\ cstatus' = [cstatus EXCEPT ![ci] = Ready]
            /\ link' = [link EXCEPT ![ci] = "up"]
            /\ wire' = [wire EXCEPT ![ci] = << >>]
            /\ inbox' = [inbox EXCEPT ![ci] = << >>]
            /\ answered' = [answered EXCEPT ![ci] = FALSE]
            /\ IF ProgressReset(cstatus[ci]).val THEN Decrement ELSE UNCHANGED <<thr, tasks_pending>>
            /\ cerr' = cerr
            /\ Advance
       ELSE /\ thr' = "err"
            /\ cerr' = <<"Io">>
            /\ UNCHANGED <<cstatus, link, wire, inbox, answered, tasks_pending, ci>>
  /\ UNCHANGED <<segment, conns_per_thr, remaining_work, latencies, faults, submitted, completed>>
  /\ emitted' = Call(cstatus[ci], "ConnectionReset", ProgressReset(cstatus[ci]).val)
  /\ IF connected
       THEN /\ sent' = [sent EXCEPT ![ci] = 0]
            /\ stamps' = [stamps EXCEPT ![ci] = 0]
       ELSE UNCHANGED <<sent, stamps>>
  /\ UNCHANGED otherThanClosed

\* A read of zero bytes taken for a read that found nothing yet
StepFailAsWouldBlock ==
  /\ Looping
  /\ link[ci] = "closed"
  /\ cstatus[ci].kind \in {"WritingRequest", "ReadingResponse"}
  /\ Advance
  /\ UNCHANGED <<segment, conns_per_thr, remaining_work, tasks_pending, cstatus, thr, cerr,
                 latencies, link, wire, inbox, answered, faults, submitted, completed>>
  /\ emitted' = Call(cstatus[ci], "WouldBlock", << >>)
  /\ UNCHANGED <<sent, stamps>>
  /\ UNCHANGED otherThanClosed

\* One iteration whose write failed otherwise (the peer closed the stream:
\* a broken pipe), or whose read returned Ok(0): the error leaves send_packets.
StepFail ==
  /\ Looping
  /\ link[ci] = "closed"
  /\ \/ cstatus[ci].kind = "WritingRequest" /\ cerr' = <<"Io">>
     \/ cstatus[ci].kind = "ReadingResponse" /\ inbox[ci] = << >>
          /\ cerr' = <<"ConnectionClosed">>
  /\ thr' = "err"
  /\ UNCHANGED <<segment, conns_per_thr, remaining_work, tasks_pending, ci, cstatus, latencies,
                 link, wire, inbox, answered, faults, submitted, completed>>
  /\ emitted' = Call(cstatus[ci], "Err", cerr')
  /\ UNCHANGED <<sent, stamps>>
  /\ UNCHANGED otherThanClosed

\* One iteration on a ReadingResponse connection whose read returned Ok(n), n > 0.
StepRead(n) ==
  /\ Looping
  /\ cstatus[ci].kind = "ReadingResponse"
  /\ link[ci] # "reset"
  /\ n \in Parts(Len(inbox[ci]))
  /\ n <= BUF_LEN
  /\ inbox' = [inbox EXCEPT ![ci] = SubSeq(@, n + 1, Len(@))]
  /\ LET p == ProgressRead(cstatus[ci], SubSeq(inbox[ci], 1, n)) IN
       /\ cstatus' = [cstatus EXCEPT ![ci] = p.status]
       /\ CASE p.out = "CompletedResponse" ->
                 /\ latencies' = Append(latencies, p.val)
                 /\ completed' = [completed EXCEPT ![ci] = Append(@, p.val)]
                 /\ Decrement
                 /\ cerr' = cerr
                 /\ Advance
            [] p.out = "MadeProgress" ->
                 /\ Advance
                 /\ UNCHANGED <<latencies, completed, thr, tasks_pending, cerr>>
            [] p.out = "Err" ->
                 /\ thr' = "err"
                 /\ cerr' = p.val
                 /\ UNCHANGED <<latencies, completed, tasks_pending, ci>>
            [] p.out = "Panic" ->
                 /\ thr' = "panic"
                 /\ UNCHANGED <<latencies, completed, tasks_pending, ci, cerr>>
       /\ emitted' = Call(cstatus[ci], p.out, p.val)
       /\ IF p.out = "CompletedResponse"
            THEN /\ sent' = [sent EXCEPT ![ci] = 0]
                 /\ stamps' = [stamps EXCEPT ![ci] = 0]
            ELSE UNCHANGED <<sent, stamps>>
  /\ UNCHANGED <<segment, conns_per_thr, remaining_work, link, wire, answered, faults, submitted>>
  /\ UNCHANGED otherThanClosed

\* send_packets returns Ok when the loop condition fails.
Return ==
  /\ thr = "run"
  /\ ~Looping
  /\ thr' = "ok"
  /\ UNCHANGED <<segment, conns_per_thr, remaining_work, tasks_pending, ci, cstatus, cerr, latencies,
                 link, wire, inbox, answered, faults, submitted, completed>>
  /\ emitted' = NoCall
  /\ UNCHANGED <<sent, stamps>>
  /\ UNCHANGED otherThanClosed

\* The request on the wire is whole: the header's length field accounts for
\* every byte (Worker::receive_request).
WholeRequest(w) ==
  /\ Len(w) >= 1 + LEN_LENGTH
  /\ Len(w) = 1 + LEN_LENGTH + FromBe(Slice(w, 1, 1 + LEN_LENGTH))

\* The peer answers a whole request with one response of its class
\* (Worker::execute_task, Worker::send_response).
PeerAnswer(c, m) ==
  /\ thr = "run"
  /\ link[c] = "up"
  /\ ~answered[c]
  /\ WholeRequest(wire[c])
  /\ TypeFromValue(wire[c][1]).tag = "ok"
  /\ m \in Answers(TypeFromValue(wire[c][1]).val)
  /\ inbox' = [inbox EXCEPT ![c] = @ \o ResponseSerialize(m)]
  /\ answered' = [answered EXCEPT ![c] = TRUE]
  /\ UNCHANGED <<segment, conns_per_thr, remaining_work, tasks_pending, ci, cstatus, thr, cerr,
                 latencies, link, wire, faults, submitted, completed>>
  /\ emitted' = NoCall
  /\ UNCHANGED <<sent, stamps>>
  /\ UNCHANGED otherThanClosed

\* The peer resets the stream (what it has sent is lost) or closes it (what it
\* has sent can still be read).
PeerFault(c, how) ==
  /\ thr = "run"
  /\ link[c] = "up"
  /\ faults < MaxFaults
  /\ faults' = faults + 1
  /\ link' = [link EXCEPT ![c] = how]
  /\ inbox' = [inbox EXCEPT ![c] = IF how = "reset" THEN << >> ELSE @]
  /\ UNCHANGED <<segment, conns_per_thr, remaining_work, tasks_pending, ci, cstatus, thr, cerr,
                 latencies, wire, answered, submitted, completed>>
  /\ emitted' = NoCall
  /\ UNCHANGED <<sent, stamps>>
  /\ UNCHANGED otherThanClosed

\* One connection, its traffic split at every byte.
ConnInit == ThreadInit({1}, 1)

ConnNext ==
  \/ \E m \in ClientRequests : StepAccept(m)
  \/ \E n \in Acceptable(cstatus[ci]) : StepWrite(n)
  \/ StepWouldBlock
  \/ \E connected \in BOOLEAN : StepReset(connected)
  \/ StepFail
  \/ \E n \in Parts(Len(inbox[ci])) : StepRead(n)
  \/ Return
  \/ \E m \in Answers(BE) \cup Answers(LCR) \cup Answers(LCW) : PeerAnswer(1, m)
  \/ \E how \in {"reset", "closed"} : PeerFault(1, how)

\* A pool of connections, their traffic split at segments of the header's size,
\* every request a BeRead.
PoolRequests == {r \in ClientRequests : r.kind = BE}
PoolInit == ThreadInit(1..MaxConns, 1 + LEN_LENGTH)

PoolNext ==
  \/ \E m \in PoolRequests : StepAccept(m)
  \/ StepIdle
  \/ \E n \in Acceptable(cstatus[ci]) : StepWrite(n)
  \/ StepWouldBlock
  \/ \E connected \in BOOLEAN : StepReset(connected)
  \/ StepFail
  \/ \E n \in Parts(Len(inbox[ci])) : StepRead(n)
  \/ Return
  \/ \E c \in 1..conns_per_thr : \E m \in Answers(BE) \cup Answers(LCR) \cup Answers(LCW) :
       PeerAnswer(c, m)
  \/ \E c \in 1..conns_per_thr : \E how \in {"reset", "closed"} : PeerFault(c, how)

SpecConn == ConnInit /\ [][ConnNext]_vars
SpecPool == PoolInit /\ [][PoolNext]_vars

\* =========================================================================
\* Request ids of the open-loop client (client/open.rs). The ids of the model
\* stay far below 2^64, where the u64 arithmetic would wrap.
\* =========================================================================
\* usize::BITS - n.leading_zeros(): the number of bits of n
RECURSIVE BitLen(_)
BitLen(n) == IF n = 0 THEN 0 ELSE 1 + BitLen(n \div 2)

\* a | b
RECURSIVE BitOr(_, _)
BitOr(a, b) ==
  IF a = 0 THEN b
  ELSE IF b = 0 THEN a
  ELSE (IF a % 2 = 1 \/ b % 2 = 1 THEN 1 ELSE 0) + 2 * BitOr(a \div 2, b \div 2)

\* a >> k and a << k
Shr(a, k) == a \div Pow2(k)
Shl(a, k) == a * Pow2(k)

\* OpenBench::run: the shift handed to every thread
FloorLog2(n) == BitLen(n) - 1
ShiftFor(n) == BitLen(n)

\* generate_random_request: the req_id that follows id
NextReqId(id, shift, mask) == BitOr(Shl(Shr(id, shift) + 1, shift), mask)

\* OpenBench::run hands thread i of num_threads the mask i and the shift;
\* ClientThread::init starts req_id at the mask.
IdsInit ==
  /\ num_threads \in 1..MaxBenchThreads
  /\ req_id_shift = ShiftFor(num_threads)
  /\ thread_req_id = [i \in 0..(num_threads - 1) |-> i]
  /\ generated = [i \in 0..(num_threads - 1) |-> << >>]
  /\ StoreIdle
  /\ ClosedIdle
  /\ OpenIdle
  /\ CodecIdle
  /\ ServerIdle
  /\ AddrIdle

\* Thread i generates a request: generate_random_request.
Generate(i) ==
  /\ Len(generated[i]) < MaxIds
  /\ generated' = [generated EXCEPT ![i] = Append(@, thread_req_id[i])]
  /\ thread_req_id' = [thread_req_id EXCEPT ![i] = NextReqId(@, req_id_shift, i)]
  /\ UNCHANGED <<num_threads, req_id_shift>>
  /\ UNCHANGED otherThanIds

IdsNext == \E i \in 0..(num_threads - 1) : Generate(i)

SpecIds == IdsInit /\ [][IdsNext]_vars

\* =========================================================================
\* The open-loop client (client/open.rs): one ClientThread (thread 0 of 1),
\* its connections, and the peer at the other end of each stream.
\* =========================================================================
\* RequestState
Writing(k, buf) ==
  [kind |-> "Writing", req |-> k, started |-> FALSE, write_buf |-> buf, offset |-> 0,
   read_buf |-> << >>, expected_len |-> None]
Reading(k) ==
  [kind |-> "Reading", req |-> k, started |-> TRUE, write_buf |-> << >>, offset |-> 0,
   read_buf |-> << >>, expected_len |-> None]

EmptyMap == << >>
OConns == 1..o_conns
Top == [at |-> "top", c |-> 0]

\* The streams split traffic at segments of the header's size.
OParts(len) == PartsOf(1 + LEN_LENGTH, len)

OpenInit ==
  /\ o_conns \in 1..MaxOpenConns
  /\ in_flight = [c \in 1..o_conns |-> EmptyMap]
  /\ write_queue = [c \in 1..o_conns |-> << >>]
  /\ read_queue = [c \in 1..o_conns |-> << >>]
  /\ drop_count = [c \in 1..o_conns |-> 0]
  /\ o_latencies = [c \in 1..o_conns |-> << >>]
  /\ t_drop_count = 0
  /\ req_id = 0
  /\ phase = Top
  /\ o_thr = "run"
  /\ o_err = << >>
  /\ o_link = [c \in 1..o_conns |-> "up"]
  /\ o_wire = [c \in 1..o_conns |-> << >>]
  /\ o_inbox = [c \in 1..o_conns |-> << >>]
  /\ o_faults = 0
  /\ issued = 0
  /\ reconnects = [c \in 1..o_conns |-> << >>]
  /\ StoreIdle
  /\ ClosedIdle
  /\ IdsIdle
  /\ CodecIdle
  /\ ServerIdle
  /\ AddrIdle

\* The position after the pass over connection c is done.
After(ph) ==
  IF ph.c < o_conns THEN [ph EXCEPT !.c = @ + 1]
  ELSE IF ph.at = "writes" THEN [at |-> "reads", c |-> 1]
  ELSE Top

\* A stop that also counts what is still in flight as dropped
OStopCountingInFlight ==
  /\ o_thr = "run"
  /\ phase.at = "top"
  /\ o_thr' = "ok"
  /\ t_drop_count' = t_drop_count + SumOver(drop_count, OConns)
                       + SumOver([c \in OConns |-> Cardinality(DOMAIN in_flight[c])], OConns)
  /\ UNCHANGED <<o_conns, in_flight, write_queue, read_queue, drop_count, o_latencies,
                 req_id, phase, o_err, o_link, o_wire, o_inbox, o_faults, issued,
                 reconnects>>
  /\ UNCHANGED otherThanOpen

\* The runtime has elapsed at the top of the loop: send_packets adds up the
\* connections' drop counts and returns.
OStop ==
  /\ o_thr = "run"
  /\ phase.at = "top"
  /\ o_thr' = "ok"
  /\ t_drop_count' = t_drop_count + SumOver(drop_count, OConns)
  /\ UNCHANGED <<o_conns, in_flight, write_queue, read_queue, drop_count, o_latencies,
                 req_id, phase, o_err, o_link, o_wire, o_inbox, o_faults, issued,
                 reconnects>>
  /\ UNCHANGED otherThanOpen

\* A request is due: generate_random_request, then enqueue_new_request on a
\* connection picked at random. HashMap::insert has replaced the entry when
\* enqueue_new_request finds the id present and returns the error.
OFire(c, r) ==
  /\ o_thr = "run"
  /\ phase.at \in {"top", "fire"}
  /\ issued < MaxIssued
  /\ issued' = issued + 1
  /\ req_id' = NextReqId(req_id, ShiftFor(1), 0)
  /\ LET m == [r EXCEPT !.req_id = req_id] IN
       /\ in_flight' = [in_flight EXCEPT ![c] =
                          MapInsert(@, req_id, Writing(m.kind, RequestSerialize(m)))]
       /\ IF req_id \in DOMAIN in_flight[c]
            THEN /\ o_thr' = "err"
                 /\ o_err' = <<"InternalError">>
                 /\ UNCHANGED <<write_queue, phase>>
            ELSE /\ write_queue' = [write_queue EXCEPT ![c] = Append(@, req_id)]
                 /\ phase' = [at |-> "fire", c |-> 0]
                 /\ UNCHANGED <<o_thr, o_err>>
  /\ UNCHANGED <<o_conns, read_queue, drop_count, o_latencies, t_drop_count, o_link,
                 o_wire, o_inbox, o_faults, reconnects>>
  /\ UNCHANGED otherThanOpen

\* No request is due (any more): the pass over the write queues begins.
OBeginWrites ==
  /\ o_thr = "run"
  /\ phase.at \in {"top", "fire"}
  /\ phase' = [at |-> "writes", c |-> 1]
  /\ UNCHANGED <<o_conns, in_flight, write_queue, read_queue, drop_count, o_latencies,
                 t_drop_count, req_id, o_thr, o_err, o_link, o_wire, o_inbox, o_faults,
                 issued, reconnects>>
  /\ UNCHANGED otherThanOpen

\* in_flight.len() as reconnect counts it
DroppedUnwritten(c) == Len(write_queue[c])
Dropped(c) == Cardinality(DOMAIN in_flight[c])

\* Connection::reconnect after progress_writes or progress_reads reported
\* ConnectionReset. A failed connect returns the error before anything changes.
Reconnect(c, connected) ==
  IF connected
    THEN /\ drop_count' = [drop_count EXCEPT ![c] = @ + Dropped(c)]
         /\ in_flight' = [in_flight EXCEPT ![c] = EmptyMap]
         /\ read_queue' = [read_queue EXCEPT ![c] = << >>]
         /\ write_queue' = [write_queue EXCEPT ![c] = << >>]
         /\ o_link' = [o_link EXCEPT ![c] = "up"]
         /\ o_wire' = [o_wire EXCEPT ![c] = << >>]
         /\ o_inbox' = [o_inbox EXCEPT ![c] = << >>]
         /\ reconnects' = [reconnects EXCEPT ![c] = Append(@, Dropped(c))]
         /\ phase' = After(phase)
         /\ UNCHANGED <<o_thr, o_err>>
    ELSE /\ o_thr' = "err"
         /\ o_err' = <<"Io">>
         /\ UNCHANGED <<drop_count, in_flight, read_queue, write_queue, o_link, o_wire,
                        o_inbox, reconnects, phase>>

\* What the write of the current turn can accept.
OWriteSizes ==
  IF phase.at = "writes" /\ write_queue[phase.c] # << >>
    THEN LET st == in_flight[phase.c][Head(write_queue[phase.c])] IN
         {n \in 0..Len(st.write_buf) :
            IF st.offset >= Len(st.write_buf) THEN n = 0
            ELSE n \in OParts(Len(st.write_buf) - st.offset)}
    ELSE {}

\* The pass over the write queues finds connection c's queue empty, or
\* progress_writes has emptied it and returns MadeProgress.
OWriteSkip ==
  /\ o_thr = "run"
  /\ phase.at = "writes"
  /\ write_queue[phase.c] = << >>
  /\ phase' = After(phase)
  /\ UNCHANGED <<o_conns, in_flight, write_queue, read_queue, drop_count, o_latencies,
                 t_drop_count, req_id, o_thr, o_err, o_link, o_wire, o_inbox, o_faults,
                 issued, reconnects>>
  /\ UNCHANGED otherThanOpen

\* A progress_writes that goes on to the next request after a partial write
OWritePastPartial(n) ==
  /\ o_thr = "run"
  /\ phase.at = "writes"
  /\ write_queue[phase.c] # << >>
  /\ o_link[phase.c] = "up"
  /\ LET c == phase.c
         id == Head(write_queue[c])
         st == in_flight[c][id]
     IN
     IF st.kind = "Reading"
       THEN /\ o_thr' = "err"
            /\ o_err' = <<"InternalError">>
            /\ UNCHANGED <<in_flight, write_queue, o_wire, phase>>
       ELSE /\ n \in OWriteSizes
            /\ o_wire' = [o_wire EXCEPT ![c] =
                            @ \o SubSeq(st.write_buf, st.offset + 1, st.offset + n)]
            /\ IF n + st.offset = Len(st.write_buf)
                 THEN /\ in_flight' = [in_flight EXCEPT ![c][id] = Reading(FromRequest(st.req))]
                      /\ write_queue' = [write_queue EXCEPT ![c] = Tail(@)]
                      /\ UNCHANGED phase
                 ELSE /\ in_flight' = [in_flight EXCEPT ![c][id] =
                                         [st EXCEPT !.started = TRUE, !.offset = @ + n]]
                      /\ write_queue' = [write_queue EXCEPT ![c] = Tail(@) \o <<id>>]
                      /\ UNCHANGED phase
            /\ UNCHANGED <<o_thr, o_err>>
  /\ UNCHANGED <<o_conns, read_queue, drop_count, o_latencies, t_drop_count, req_id,
                 o_link, o_inbox, o_faults, issued, reconnects>>
  /\ UNCHANGED otherThanOpen

\* progress_writes, one turn of its loop in which write returned Ok(n): the
\* head request becomes Reading and leaves write_queue when its bytes are all
\* written, and the loop goes on; otherwise offset advances and the loop ends.
OWrite(n) ==
  /\ o_thr = "run"
  /\ phase.at = "writes"
  /\ write_queue[phase.c] # << >>
  /\ o_link[phase.c] = "up"
  /\ LET c == phase.c
         id == Head(write_queue[c])
         st == in_flight[c][id]
     IN
     IF st.kind = "Reading"
       THEN /\ o_thr' = "err"
            /\ o_err' = <<"InternalError">>
            /\ UNCHANGED <<in_flight, write_queue, o_wire, phase>>
       ELSE /\ n \in OWriteSizes
            /\ o_wire' = [o_wire EXCEPT ![c] =
                            @ \o SubSeq(st.write_buf, st.offset + 1, st.offset + n)]
            /\ IF n + st.offset = Len(st.write_buf)
                 THEN /\ in_flight' = [in_flight EXCEPT ![c][id] = Reading(FromRequest(st.req))]
                      /\ write_queue' = [write_queue EXCEPT ![c] = Tail(@)]
                      /\ UNCHANGED phase
                 ELSE /\ in_flight' = [in_flight EXCEPT ![c][id] =
                                         [st EXCEPT !.started = TRUE, !.offset = @ + n]]
                      /\ phase' = After(phase)
                      /\ UNCHANGED write_queue
            /\ UNCHANGED <<o_thr, o_err>>
  /\ UNCHANGED <<o_conns, read_queue, drop_count, o_latencies, t_drop_count, req_id,
                 o_link, o_inbox, o_faults, issued, reconnects>>
  /\ UNCHANGED otherThanOpen

\* progress_writes, a turn in which write returned WouldBlock: the loop ends.
OWriteBlock ==
  /\ o_thr = "run"
  /\ phase.at = "writes"
  /\ write_queue[phase.c] # << >>
  /\ o_link[phase.c] = "up"
  /\ in_flight[phase.c][Head(write_queue[phase.c])].kind = "Writing"
  /\ phase' = After(phase)
  /\ UNCHANGED <<o_conns, in_flight, write_queue, read_queue, drop_count, o_latencies,
                 t_drop_count, req_id, o_thr, o_err, o_link, o_wire, o_inbox, o_faults,
                 issued, reconnects>>
  /\ UNCHANGED otherThanOpen

\* progress_writes, a turn in which write returned ConnectionReset:
\* send_packets reconnects.
OWriteReset(connected) ==
  /\ o_thr = "run"
  /\ phase.at = "writes"
  /\ write_queue[phase.c] # << >>
  /\ o_link[phase.c] = "reset"
  /\ in_flight[phase.c][Head(write_queue[phase.c])].kind = "Writing"
  /\ Reconnect(phase.c, connected)
  /\ UNCHANGED <<o_conns, o_latencies, t_drop_count, req_id, o_faults, issued>>
  /\ UNCHANGED otherThanOpen

\* progress_writes, a turn in which write failed otherwise (the peer closed
\* the stream: a broken pipe): the error leaves send_packets.
OWriteFail ==
  /\ o_thr = "run"
  /\ phase.at = "writes"
  /\ write_queue[phase.c] # << >>
  /\ o_link[phase.c] = "closed"
  /\ in_flight[phase.c][Head(write_queue[phase.c])].kind = "Writing"
  /\ o_thr' = "err"
  /\ o_err' = <<"Io">>
  /\ UNCHANGED <<o_conns, in_flight, write_queue, read_queue, drop_count, o_latencies,
                 t_drop_count, req_id, phase, o_link, o_wire, o_inbox, o_faults,
                 issued, reconnects>>
  /\ UNCHANGED otherThanOpen

\* progress_reads, one turn of its loop on connection c.
OReadTurn(c, n, connected) ==
  LET id == Head(read_queue[c])
      st == in_flight[c][id]
      keep == UNCHANGED <<in_flight, read_queue, write_queue, drop_count, o_latencies,
                          o_link, o_wire, o_inbox, reconnects>>
  IN
  IF st.kind = "Writing"
    THEN o_thr' = "err" /\ o_err' = <<"InternalError">> /\ UNCHANGED phase /\ keep
  ELSE IF o_link[c] = "reset"
    THEN Reconnect(c, connected) /\ UNCHANGED o_latencies
  ELSE IF o_inbox[c] = << >>
    THEN IF o_link[c] = "up"
           THEN phase' = After(phase) /\ UNCHANGED <<o_thr, o_err>> /\ keep
           ELSE o_thr' = "err" /\ o_err' = <<"ConnectionClosed">> /\ UNCHANGED phase /\ keep
  ELSE
    LET p == ReadFrame(st, SubSeq(o_inbox[c], 1, n)) IN
    /\ n \in OParts(Len(o_inbox[c]))
    /\ n <= BUF_LEN
    /\ o_inbox' = [o_inbox EXCEPT ![c] = SubSeq(@, n + 1, Len(@))]
    /\ in_flight' = [in_flight EXCEPT ![c][id] = p.status]
    /\ CASE p.out = "CompletedResponse" ->
              /\ o_latencies' = [o_latencies EXCEPT ![c] = Append(@, st.req)]
              /\ read_queue' = [read_queue EXCEPT ![c] = Tail(@)]
              /\ UNCHANGED <<phase, o_thr, o_err>>
         [] p.out = "MadeProgress" ->
              /\ phase' = After(phase)
              /\ UNCHANGED <<o_latencies, read_queue, o_thr, o_err>>
         [] p.out = "Err" ->
              /\ o_thr' = "err"
              /\ o_err' = p.val
              /\ UNCHANGED <<o_latencies, read_queue, phase>>
         [] p.out = "Panic" ->
              /\ o_thr' = "panic"
              /\ UNCHANGED <<o_latencies, read_queue, phase, o_err>>
    /\ UNCHANGED <<write_queue, drop_count, o_link, o_wire, reconnects>>

\* The pass over the read queues at connection c: progress_reads is called
\* only when read_queue holds an id, and takes a turn of its loop.
OReads(n, connected) ==
  /\ o_thr = "run"
  /\ phase.at = "reads"
  /\ IF read_queue[phase.c] = << >>
       THEN /\ phase' = After(phase)
            /\ UNCHANGED <<in_flight, read_queue, write_queue, drop_count, o_latencies,
                           o_thr, o_err, o_link, o_wire, o_inbox, reconnects>>
       ELSE OReadTurn(phase.c, n, connected)
  /\ UNCHANGED <<o_conns, t_drop_count, req_id, o_faults, issued>>
  /\ UNCHANGED otherThanOpen

\* The response the peer gives a request of class k: a count, or the username
\* "u5" at the key.
OAnswer(k) ==
  [kind |-> k, req_id |-> 0, freq |-> IF k = BE THEN 1 ELSE 0,
   username |-> IF k = BE THEN None ELSE Some(<<117, 53>>)]

\* The peer consumes the whole request at the head of the stream and answers
\* it with one response of its class and req_id (Worker::run).
OPeerAnswer(c) ==
  /\ o_thr = "run"
  /\ o_link[c] = "up"
  /\ Len(o_wire[c]) >= 1 + LEN_LENGTH
  /\ LET total == 1 + LEN_LENGTH + FromBe(Slice(o_wire[c], 1, 1 + LEN_LENGTH))
         kind == TypeFromValue(o_wire[c][1])
     IN /\ Len(o_wire[c]) >= total
        /\ kind.tag = "ok"
        /\ o_wire' = [o_wire EXCEPT ![c] = SubSeq(@, total + 1, Len(@))]
        /\ o_inbox' = [o_inbox EXCEPT ![c] =
                         @ \o ResponseSerialize(
                                [OAnswer(kind.val) EXCEPT !.req_id =
                                   FromBe(Slice(o_wire[c], 1 + LEN_LENGTH, 1 + 2 * LEN_LENGTH))])]
  /\ UNCHANGED <<o_conns, in_flight, write_queue, read_queue, drop_count, o_latencies,
                 t_drop_count, req_id, phase, o_thr, o_err, o_link, o_faults, issued,
                 reconnects>>
  /\ UNCHANGED otherThanOpen

\* The peer resets the stream (what it has sent is lost) or closes it.
OPeerFault(c, how) ==
  /\ o_thr = "run"
  /\ o_link[c] = "up"
  /\ o_faults < MaxFaults
  /\ o_faults' = o_faults + 1
  /\ o_link' = [o_link EXCEPT ![c] = how]
  /\ o_inbox' = [o_inbox EXCEPT ![c] = IF how = "reset" THEN << >> ELSE @]
  /\ UNCHANGED <<o_conns, in_flight, write_queue, read_queue, drop_count, o_latencies,
                 t_drop_count, req_id, phase, o_thr, o_err, o_wire, issued, reconnects>>
  /\ UNCHANGED otherThanOpen

\* What the read of the current turn can return.
OReadSizes ==
  IF phase.at = "reads" /\ read_queue[phase.c] # << >> /\ o_inbox[phase.c] # << >>
    THEN OParts(Len(o_inbox[phase.c]))
    ELSE {0}

OpenNext ==
  \/ OStop
  \/ \E c \in OConns, r \in ClientRequests : OFire(c, r)
  \/ OBeginWrites
  \/ OWriteSkip
  \/ \E n \in OWriteSizes : OWrite(n)
  \/ OWriteBlock
  \/ \E connected \in BOOLEAN : OWriteReset(connected)
  \/ OWriteFail
  \/ \E n \in OReadSizes, connected \in BOOLEAN : OReads(n, connected)
  \/ \E c \in OConns : OPeerAnswer(c)
  \/ \E c \in OConns : \E how \in {"reset", "closed"} : OPeerFault(c, how)

SpecOpen == OpenInit /\ [][OpenNext]_vars

\* =========================================================================
\* The read side of both client modes against a peer that may answer in any
\* class: the closed-loop thread of one connection, or progress_reads on an
\* open-loop connection whose read_queue holds the requests written to it.
\* =========================================================================
\* A peer that answers a whole request with a response of any class.
PeerSend(c, m) ==
  /\ thr = "run"
  /\ link[c] = "up"
  /\ ~answered[c]
  /\ WholeRequest(wire[c])
  /\ inbox' = [inbox EXCEPT ![c] = @ \o ResponseSerialize(m)]
  /\ answered' = [answered EXCEPT ![c] = TRUE]
  /\ UNCHANGED <<segment, conns_per_thr, remaining_work, tasks_pending, ci, cstatus, thr, cerr,
                 latencies, link, wire, faults, submitted, completed>>
  /\ emitted' = NoCall
  /\ UNCHANGED <<sent, stamps>>
  /\ UNCHANGED otherThanClosed

\* The same peer on an open-loop stream: it consumes the whole request at the
\* head of the stream and answers with a response of class k and its req_id.
OPeerSend(c, k) ==
  /\ o_thr = "run"
  /\ o_link[c] = "up"
  /\ Len(o_wire[c]) >= 1 + LEN_LENGTH
  /\ LET total == 1 + LEN_LENGTH + FromBe(Slice(o_wire[c], 1, 1 + LEN_LENGTH)) IN
       /\ Len(o_wire[c]) >= total
       /\ o_wire' = [o_wire EXCEPT ![c] = SubSeq(@, total + 1, Len(@))]
       /\ o_inbox' = [o_inbox EXCEPT ![c] =
                        @ \o ResponseSerialize(
                               [OAnswer(k) EXCEPT !.req_id =
                                  FromBe(Slice(o_wire[c], 1 + LEN_LENGTH, 1 + 2 * LEN_LENGTH))])]
  /\ UNCHANGED <<o_conns, in_flight, write_queue, read_queue, drop_count, o_latencies,
                 t_drop_count, req_id, phase, o_thr, o_err, o_link, o_faults, issued,
                 reconnects>>
  /\ UNCHANGED otherThanOpen

\* The req_id of the i-th request of the thread (thread 0 of 1).
RECURSIVE NthReqId(_)
NthReqId(i) == IF i = 1 THEN 0 ELSE NextReqId(NthReqId(i - 1), ShiftFor(1), 0)

\* The bytes of the requests reqs[i..], each under its req_id.
RECURSIVE WrittenFrom(_, _)
WrittenFrom(reqs, i) ==
  IF i > Len(reqs) THEN << >>
  ELSE RequestSerialize([reqs[i] EXCEPT !.req_id = NthReqId(i)]) \o WrittenFrom(reqs, i + 1)

\* The connection progress_reads is written for: every request of reqs has
\* been written in full, is Reading in in_flight and stands in read_queue in
\* the order written, and the peer has consumed none of them yet.
ReadsInit ==
  /\ o_conns = 1
  /\ \E reqs \in UNION {[1..n -> ClientRequests] : n \in 1..MaxIssued} :
       /\ in_flight = <<[id \in {NthReqId(i) : i \in 1..Len(reqs)} |->
                           Reading(FromRequest(
                             reqs[CHOOSE i \in 1..Len(reqs) : NthReqId(i) = id].kind))]>>
       /\ read_queue = <<[i \in 1..Len(reqs) |-> NthReqId(i)]>>
       /\ o_wire = <<WrittenFrom(reqs, 1)>>
       /\ req_id = NthReqId(Len(reqs) + 1)
       /\ issued = Len(reqs)
  /\ write_queue = << << >> >>
  /\ drop_count = <<0>>
  /\ o_latencies = << << >> >>
  /\ t_drop_count = 0
  /\ phase = Top
  /\ o_thr = "run"
  /\ o_err = << >>
  /\ o_link = <<"up">>
  /\ o_inbox = << << >> >>
  /\ o_faults = 0
  /\ reconnects = << << >> >>
  /\ StoreIdle
  /\ ClosedIdle
  /\ IdsIdle
  /\ CodecIdle
  /\ ServerIdle
  /\ AddrIdle

\* What the write or the read of the closed-loop thread's turn can move.
ClosedWriteSizes == IF thr = "run" THEN Acceptable(cstatus[ci]) ELSE {}
ClosedReadSizes == IF thr = "run" THEN Parts(Len(inbox[ci])) ELSE {}

ClientsInit == ConnInit \/ ReadsInit

ClientsNext ==
  \/ \E m \in ClientRequests : StepAccept(m)
  \/ \E n \in ClosedWriteSizes : StepWrite(n)
  \/ StepWouldBlock
  \/ \E connected \in BOOLEAN : StepReset(connected)
  \/ StepFail
  \/ \E n \in ClosedReadSizes : StepRead(n)
  \/ Return
  \/ \E m \in Answers(BE) \cup Answers(LCR) \cup Answers(LCW) : PeerSend(1, m)
  \/ \E how \in {"reset", "closed"} : PeerFault(1, how)
  \/ OStop
  \/ OBeginWrites
  \/ OWriteSkip
  \/ \E n \in OReadSizes, connected \in BOOLEAN : OReads(n, connected)
  \/ \E c \in OConns, k \in Kinds : OPeerSend(c, k)
  \/ \E c \in OConns : \E how \in {"reset", "closed"} : OPeerFault(c, how)

SpecClients == ClientsInit /\ [][ClientsNext]_vars

\* =========================================================================
\* The server (server.rs): the server thread with its accept loop, one Worker
\* task per accepted connection on smol's executor thread, the main thread
\* that starts the server and then the bench (main.rs), and the clients'
\* ends of the connections.
\* =========================================================================
SConns == 1..MaxSrvConns

\* Request::random also draws usernames of no byte.
SrvRequests ==
  ClientRequests \cup {[NoRequest EXCEPT !.kind = LCW, !.id = 5, !.username = << >>]}

\* bench/usernames.txt as Store::new reads it: the username "u5" at key 5.
SrvStore == [k \in {5} |-> <<117, 53>>]

ServerInit ==
  /\ main_pc = "start"
  /\ srv_pc = "none"
  /\ listener = "none"
  /\ channel = 0
  /\ signals = 0
  /\ s_conn = [c \in SConns |-> "none"]
  /\ s_link = [c \in SConns |-> "up"]
  /\ s_in = [c \in SConns |-> << >>]
  /\ s_out = [c \in SConns |-> << >>]
  /\ w_pc = [c \in SConns |-> "none"]
  /\ w_read_buf = [c \in SConns |-> << >>]
  /\ w_req = [c \in SConns |-> NoRequest]
  /\ w_res = [c \in SConns |-> << >>]
  /\ w_offset = [c \in SConns |-> 0]
  /\ polled = 0
  /\ s_store = SrvStore
  /\ w_spin = [c \in SConns |-> 0]
  /\ w_received = [c \in SConns |-> << >>]
  /\ w_responded = [c \in SConns |-> << >>]
  /\ s_sent = 0
  /\ s_faults = 0
  /\ StoreIdle
  /\ ClosedIdle
  /\ OpenIdle
  /\ IdsIdle
  /\ CodecIdle
  /\ AddrIdle

workerVars == <<w_pc, w_read_buf, w_req, w_res, w_offset, polled, s_store, w_spin,
                w_received, w_responded>>
startVars == <<main_pc, srv_pc, listener, channel, signals>>

\* main: the channel is made and the server thread spawned; main goes on to
\* rx.recv().
MainSpawn ==
  /\ main_pc = "start"
  /\ main_pc' = "waiting"
  /\ srv_pc' = "init"
  /\ UNCHANGED <<listener, channel, signals, s_conn, s_link, s_in, s_out, s_sent, s_faults>>
  /\ UNCHANGED workerVars
  /\ UNCHANGED otherThanServer

\* DefaultSmolServer::init: Store::new, whose File::open(..).unwrap() panics
\* when the file cannot be opened.
SrvInit(opened) ==
  /\ srv_pc = "init"
  /\ srv_pc' = IF opened THEN "bind" ELSE "panic"
  /\ UNCHANGED <<main_pc, listener, channel, signals, s_conn, s_link, s_in, s_out, s_sent,
                 s_faults>>
  /\ UNCHANGED workerVars
  /\ UNCHANGED otherThanServer

\* A server that goes on to the signal while the listener is not bound yet
SrvBindLater(bound) ==
  /\ srv_pc = "bind"
  /\ srv_pc' = "signal"
  /\ UNCHANGED <<main_pc, listener, channel, signals, s_conn, s_link, s_in, s_out, s_sent,
                 s_faults>>
  /\ UNCHANGED workerVars
  /\ UNCHANGED otherThanServer

\* TcpListener::bind(..).await.unwrap()
SrvBind(bound) ==
  /\ srv_pc = "bind"
  /\ srv_pc' = IF bound THEN "signal" ELSE "panic"
  /\ listener' = IF bound THEN "bound" ELSE listener
  /\ UNCHANGED <<main_pc, channel, signals, s_conn, s_link, s_in, s_out, s_sent, s_faults>>
  /\ UNCHANGED workerVars
  /\ UNCHANGED otherThanServer

\* rx.send(()).unwrap(), once, before the accept loop: the channel has room
\* for the one message and main holds the receiver.
SrvSignal ==
  /\ srv_pc = "signal"
  /\ channel' = channel + 1
  /\ signals' = signals + 1
  /\ srv_pc' = "accept"
  /\ UNCHANGED <<main_pc, listener, s_conn, s_link, s_in, s_out, s_sent, s_faults>>
  /\ UNCHANGED workerVars
  /\ UNCHANGED otherThanServer

\* rx.recv().unwrap() in main: it returns the message, or the error when the
\* server thread has panicked and dropped the sender.
MainRecv ==
  /\ main_pc = "waiting"
  /\ IF channel > 0
       THEN main_pc' = "client" /\ channel' = channel - 1
       ELSE srv_pc = "panic" /\ main_pc' = "panic" /\ UNCHANGED channel
  /\ UNCHANGED <<srv_pc, listener, signals, s_conn, s_link, s_in, s_out, s_sent, s_faults>>
  /\ UNCHANGED workerVars
  /\ UNCHANGED otherThanServer

\* The bench opens its next connection (ClientThread::init, Connection::new):
\* TcpStream::connect succeeds against a bound listener and is refused
\* otherwise, and the unwrap panics.
CConnect(c) ==
  /\ main_pc = "client"
  /\ s_conn[c] = "none"
  /\ \A d \in SConns : d < c => s_conn[d] # "none"
  /\ IF listener = "bound"
       THEN s_conn' = [s_conn EXCEPT ![c] = "pending"] /\ UNCHANGED main_pc
       ELSE main_pc' = "panic" /\ UNCHANGED s_conn
  /\ UNCHANGED <<srv_pc, listener, channel, signals, s_link, s_in, s_out, s_sent, s_faults>>
  /\ UNCHANGED workerVars
  /\ UNCHANGED otherThanServer

\* The accept loop: listener.accept() returns the oldest pending connection
\* and its Worker is spawned on the executor and detached.
SrvAccept(c) ==
  /\ srv_pc = "accept"
  /\ s_conn[c] = "pending"
  /\ \A d \in SConns : d < c => s_conn[d] # "pending"
  /\ s_conn' = [s_conn EXCEPT ![c] = "accepted"]
  /\ w_pc' = [w_pc EXCEPT ![c] = "receive"]
  /\ UNCHANGED startVars
  /\ UNCHANGED <<s_link, s_in, s_out, s_sent, s_faults>>
  /\ UNCHANGED <<w_read_buf, w_req, w_res, w_offset, polled, s_store, w_spin, w_received,
                 w_responded>>
  /\ UNCHANGED otherThanServer

\* A client writes a request on its connection.
CSend(c, r) ==
  /\ main_pc = "client"
  /\ s_conn[c] # "none"
  /\ s_link[c] = "up"
  /\ s_sent < MaxSrvReqs
  /\ s_sent' = s_sent + 1
  /\ s_in' = [s_in EXCEPT ![c] = @ \o RequestSerialize([r EXCEPT !.req_id = s_sent])]
  /\ UNCHANGED startVars
  /\ UNCHANGED <<s_conn, s_link, s_out, s_faults>>
  /\ UNCHANGED workerVars
  /\ UNCHANGED otherThanServer

\* A client closes its connection, or resets it (the bytes it wrote and the
\* worker has not read are lost).
CFault(c, how) ==
  /\ main_pc = "client"
  /\ s_conn[c] # "none"
  /\ s_link[c] = "up"
  /\ s_faults < MaxFaults
  /\ s_faults' = s_faults + 1
  /\ s_link' = [s_link EXCEPT ![c] = how]
  /\ s_in' = [s_in EXCEPT ![c] = IF how = "reset" THEN << >> ELSE @]
  /\ UNCHANGED startVars
  /\ UNCHANGED <<s_conn, s_out, s_sent>>
  /\ UNCHANGED workerVars
  /\ UNCHANGED otherThanServer

\* The executor thread can run worker c: it runs no worker, or runs c already.
CanRun(c) == polled = 0 \/ polled = c

\* A panic of the task of worker c that takes the executor thread with it
UnwindThread(c) ==
  /\ w_pc' = [w_pc EXCEPT ![c] = "dead"]
  /\ polled' = c

\* An unwrap in Worker::run panics: the task of worker c ends, and the
\* executor thread, which catches the unwinding, is free to run another.
Unwind(c) ==
  /\ w_pc' = [w_pc EXCEPT ![c] = "dead"]
  /\ polled' = 0

\* receive_request: what the loop does with read_buf after a read that
\* returned bytes.
ReceiveFrame(read_buf) ==
  LET req_type == TypeFromValue(read_buf[1]) IN
  IF req_type.tag = "err" THEN [out |-> "err", val |-> req_type.val]
  ELSE IF Len(read_buf) < 1 + LEN_LENGTH THEN [out |-> "continue", val |-> << >>]
  ELSE
    LET expected_len == PayloadLen(Slice(read_buf, 1, 1 + LEN_LENGTH))
        total_exp_len == 1 + LEN_LENGTH + expected_len
    IN
    IF expected_len < 0 THEN [out |-> "panic", val |-> << >>]
    ELSE IF Len(read_buf) < total_exp_len THEN [out |-> "continue", val |-> << >>]
    ELSE IF Len(read_buf) = total_exp_len
      THEN LET parsed == RequestDeserialize(read_buf) IN
           [out |-> parsed.tag, val |-> parsed.val]
    ELSE [out |-> "err", val |-> <<"ReadMore">>]

\* What a read can return of the bytes waiting on connection c.
WReadSizes(c) == {n \in OParts(Len(s_in[c])) : n <= BUF_LEN}

\* receive_request, a turn of its loop in which read returned n bytes.
WRead(c, n) ==
  /\ w_pc[c] = "receive"
  /\ CanRun(c)
  /\ s_link[c] # "reset"
  /\ n \in WReadSizes(c)
  /\ s_in' = [s_in EXCEPT ![c] = SubSeq(@, n + 1, Len(@))]
  /\ LET read_buf == w_read_buf[c] \o SubSeq(s_in[c], 1, n)
         f == ReceiveFrame(read_buf)
     IN CASE f.out = "continue" ->
               /\ w_read_buf' = [w_read_buf EXCEPT ![c] = read_buf]
               /\ polled' = c
               /\ UNCHANGED <<w_pc, w_req, w_received>>
          [] f.out = "ok" ->
               /\ w_read_buf' = [w_read_buf EXCEPT ![c] = << >>]
               /\ w_req' = [w_req EXCEPT ![c] = f.val]
               /\ w_received' = [w_received EXCEPT ![c] = Append(@, f.val.kind)]
               /\ w_pc' = [w_pc EXCEPT ![c] = "execute"]
               /\ polled' = c
          [] OTHER ->
               /\ w_read_buf' = [w_read_buf EXCEPT ![c] = read_buf]
               /\ Unwind(c)
               /\ UNCHANGED <<w_req, w_received>>
  /\ w_spin' = [w_spin EXCEPT ![c] = 0]
  /\ UNCHANGED startVars
  /\ UNCHANGED <<s_conn, s_link, s_out, s_sent, s_faults>>
  /\ UNCHANGED <<w_res, w_offset, s_store, w_responded>>
  /\ UNCHANGED otherThanServer

\* receive_request, a turn in which read returned Ok(0), the client having
\* closed the stream: continue, and the next read is made at once.
WReadZero(c) ==
  /\ w_pc[c] = "receive"
  /\ CanRun(c)
  /\ s_link[c] = "closed"
  /\ s_in[c] = << >>
  /\ polled' = c
  /\ w_spin' = [w_spin EXCEPT ![c] = IF @ < MaxSpin THEN @ + 1 ELSE @]
  /\ UNCHANGED startVars
  /\ UNCHANGED <<s_conn, s_link, s_in, s_out, s_sent, s_faults>>
  /\ UNCHANGED <<w_pc, w_read_buf, w_req, w_res, w_offset, s_store, w_received, w_responded>>
  /\ UNCHANGED otherThanServer

\* receive_request, a turn in which read failed, the client having reset the
\* stream: the error is returned and unwrap panics.
WReadReset(c) ==
  /\ w_pc[c] = "receive"
  /\ CanRun(c)
  /\ s_link[c] = "reset"
  /\ Unwind(c)
  /\ UNCHANGED startVars
  /\ UNCHANGED <<s_conn, s_link, s_in, s_out, s_sent, s_faults>>
  /\ UNCHANGED <<w_read_buf, w_req, w_res, w_offset, s_store, w_spin, w_received, w_responded>>
  /\ UNCHANGED otherThanServer

\* A read or a write of the running worker is pending: nothing has arrived on
\* a stream that is up, or the socket takes nothing now. The task yields.
WPending(c) ==
  /\ polled = c
  /\ s_link[c] = "up"
  /\ \/ w_pc[c] = "receive" /\ s_in[c] = << >>
     \/ w_pc[c] = "send" /\ w_offset[c] < Len(w_res[c])
  /\ polled' = 0
  /\ UNCHANGED startVars
  /\ UNCHANGED <<s_conn, s_link, s_in, s_out, s_sent, s_faults>>
  /\ UNCHANGED <<w_pc, w_read_buf, w_req, w_res, w_offset, s_store, w_spin, w_received,
                 w_responded>>
  /\ UNCHANGED otherThanServer

\* execute_task always answering with a count
ExecuteAsBeRead(m, r) ==
  [res |-> [kind |-> BE, req_id |-> r.req_id, freq |-> 0, username |-> None],
   store |-> m]

\* execute_task on the map m: the response, and the map afterwards.
ExecuteTask(m, r) ==
  CASE r.kind = BE ->
         [res |-> [kind |-> BE, req_id |-> r.req_id,
                   freq |-> Cardinality({k \in DOMAIN m : Contains(m[k], r.substring)}),
                   username |-> None],
          store |-> m]
    [] r.kind = LCR ->
         [res |-> [kind |-> LCR, req_id |-> r.req_id, freq |-> 0, username |-> MapGet(m, r.id)],
          store |-> m]
    [] r.kind = LCW ->
         [res |-> [kind |-> LCW, req_id |-> r.req_id, freq |-> 0, username |-> MapGet(m, r.id)],
          store |-> MapInsert(m, r.id, r.username)]

\* Worker::run between receive_request and send_response: execute_task, then
\* the response is serialized. be_task yields to the executor while it scans a
\* map that is not empty.
WExecute(c) ==
  /\ w_pc[c] = "execute"
  /\ CanRun(c)
  /\ LET e == ExecuteTask(s_store, w_req[c]) IN
       /\ s_store' = e.store
       /\ w_res' = [w_res EXCEPT ![c] = ResponseSerialize(e.res)]
  /\ w_offset' = [w_offset EXCEPT ![c] = 0]
  /\ w_pc' = [w_pc EXCEPT ![c] = "send"]
  /\ polled' = IF w_req[c].kind = BE /\ DOMAIN s_store # {} THEN 0 ELSE c
  /\ UNCHANGED startVars
  /\ UNCHANGED <<s_conn, s_link, s_in, s_out, s_sent, s_faults>>
  /\ UNCHANGED <<w_read_buf, w_req, w_spin, w_received, w_responded>>
  /\ UNCHANGED otherThanServer

\* What write can accept of response[offset..]: any positive part of it, and
\* nothing of an empty slice.
WWriteSizes(c) ==
  IF w_offset[c] >= Len(w_res[c]) THEN {0} ELSE OParts(Len(w_res[c]) - w_offset[c])

\* send_response, a turn of its loop in which write returned Ok(n): it returns
\* when n is the length of the whole response, and adds n to offset otherwise.
WWrite(c, n) ==
  /\ w_pc[c] = "send"
  /\ CanRun(c)
  /\ s_link[c] # "reset"
  /\ n \in WWriteSizes(c)
  /\ s_out' = [s_out EXCEPT ![c] = @ \o SubSeq(w_res[c], w_offset[c] + 1, w_offset[c] + n)]
  /\ w_responded' = [w_responded EXCEPT ![c] =
                       IF n > 0 /\ w_offset[c] + n = Len(w_res[c])
                         THEN Append(@, TypeFromValue(w_res[c][1]).val) ELSE @]
  /\ IF n = Len(w_res[c])
       THEN /\ w_pc' = [w_pc EXCEPT ![c] = "receive"]
            /\ w_res' = [w_res EXCEPT ![c] = << >>]
            /\ w_offset' = [w_offset EXCEPT ![c] = 0]
       ELSE /\ w_offset' = [w_offset EXCEPT ![c] = @ + n]
            /\ UNCHANGED <<w_pc, w_res>>
  /\ w_spin' = [w_spin EXCEPT ![c] = IF n > 0 THEN 0 ELSE IF @ < MaxSpin THEN @ + 1 ELSE @]
  /\ polled' = c
  /\ UNCHANGED startVars
  /\ UNCHANGED <<s_conn, s_link, s_in, s_sent, s_faults>>
  /\ UNCHANGED <<w_read_buf, w_req, s_store, w_received>>
  /\ UNCHANGED otherThanServer

\* send_response, a turn in which write failed (the client has reset or
\* closed the stream): the error is returned and unwrap panics.
WWriteFail(c) ==
  /\ w_pc[c] = "send"
  /\ CanRun(c)
  /\ s_link[c] \in {"reset", "closed"}
  /\ Unwind(c)
  /\ UNCHANGED startVars
  /\ UNCHANGED <<s_conn, s_link, s_in, s_out, s_sent, s_faults>>
  /\ UNCHANGED <<w_read_buf, w_req, w_res, w_offset, s_store, w_spin, w_received, w_responded>>
  /\ UNCHANGED otherThanServer

ServerNext ==
  \/ MainSpawn
  \/ \E opened \in BOOLEAN : SrvInit(opened)
  \/ \E bound \in BOOLEAN : SrvBind(bound)
  \/ SrvSignal
  \/ MainRecv
  \/ \E c \in SConns : CConnect(c)
  \/ \E c \in SConns : SrvAccept(c)
  \/ \E c \in SConns, r \in SrvRequests : CSend(c, r)
  \/ \E c \in SConns : \E how \in {"reset", "closed"} : CFault(c, how)
  \/ \E c \in SConns : \E n \in WReadSizes(c) : WRead(c, n)
  \/ \E c \in SConns : WReadZero(c)
  \/ \E c \in SConns : WReadReset(c)
  \/ \E c \in SConns : WPending(c)
  \/ \E c \in SConns : WExecute(c)
  \/ \E c \in SConns : \E n \in WWriteSizes(c) : WWrite(c, n)
  \/ \E c \in SConns : WWriteFail(c)

SpecServer == ServerInit /\ [][ServerNext]_vars

\* =========================================================================
\* The addresses of a client thread's streams: Connection::new connects to
\* the address it is given, Connection::reconnect to the address it computes
\* (client.rs and client/open.rs have the same code).
\* =========================================================================
AConns == 1..MaxConns

\* The ports the system gives the client's sockets: never the listener's.
LocalPorts == {PORT + k : k \in 1..MaxLocalPorts}

NoStream == [local |-> 0, peer |-> 0, link |-> "none"]

AddrInit ==
  /\ a_loop \in {"closed", "open"}
  /\ a_addr = PORT
  /\ a_stream = [c \in AConns |-> NoStream]
  /\ a_thr = "run"
  /\ a_reconnects = 0
  /\ StoreIdle
  /\ ClosedIdle
  /\ OpenIdle
  /\ IdsIdle
  /\ CodecIdle
  /\ ServerIdle

\* The local ports in use by the thread's streams.
PortsInUse == {a_stream[c].local : c \in {d \in AConns : a_stream[d].link # "none"}}

\* The address a reconnect asks for: the address given to Connection::new
OriginalAddr(c) == a_addr

\* The address reconnect connects to: self.stream.local_addr()
ReconnectAddr(c) == a_stream[c].local

\* ClientThread::init: Connection::new(addr) for the next connection;
\* TcpStream::connect(addr) reaches the listener from a free local port.
ANew(c, port) ==
  /\ a_thr = "run"
  /\ a_stream[c].link = "none"
  /\ \A d \in AConns : d < c => a_stream[d].link # "none"
  /\ port \in LocalPorts \ PortsInUse
  /\ a_stream' = [a_stream EXCEPT ![c] = [local |-> port, peer |-> a_addr, link |-> "up"]]
  /\ UNCHANGED <<a_loop, a_addr, a_thr, a_reconnects>>
  /\ UNCHANGED otherThanAddr

\* The peer of stream c resets it.
AReset(c) ==
  /\ a_thr = "run"
  /\ a_stream[c].link = "up"
  /\ a_reconnects < MaxReconnects
  /\ a_stream' = [a_stream EXCEPT ![c].link = "reset"]
  /\ UNCHANGED <<a_loop, a_addr, a_thr, a_reconnects>>
  /\ UNCHANGED otherThanAddr

\* Connection::reconnect after progress reported the reset:
\* TcpStream::connect(self.stream.local_addr()?). Nothing listens at a port
\* the system gave a client socket, so the connect is refused and the error
\* is returned; unless the system gives the new socket that same port, and
\* the socket is then connected to itself. A connect to the listener's port
\* is accepted from a free local port.
AReconnect(c, accepted, port) ==
  /\ a_thr = "run"
  /\ a_stream[c].link = "reset"
  /\ a_reconnects' = a_reconnects + 1
  /\ LET to == ReconnectAddr(c) IN
       IF to = PORT
         THEN /\ port \in LocalPorts \ (PortsInUse \ {a_stream[c].local})
              /\ a_stream' = [a_stream EXCEPT ![c] = [local |-> port, peer |-> to, link |-> "up"]]
              /\ UNCHANGED a_thr
         ELSE /\ port = to
              /\ IF accepted
                   THEN /\ a_stream' = [a_stream EXCEPT ![c] =
                                          [local |-> to, peer |-> to, link |-> "up"]]
                        /\ UNCHANGED a_thr
                   ELSE /\ a_thr' = "err"
                        /\ UNCHANGED a_stream
  /\ UNCHANGED <<a_loop, a_addr>>
  /\ UNCHANGED otherThanAddr

AddrNext ==
  \/ \E c \in AConns, port \in LocalPorts : ANew(c, port)
  \/ \E c \in AConns : AReset(c)
  \/ \E c \in AConns, accepted \in BOOLEAN, port \in LocalPorts : AReconnect(c, accepted, port)

SpecAddr == AddrInit /\ [][AddrNext]_vars

\* =========================================================================
\* Claims about the Store and the scheduling of its tasks.
\* =========================================================================
IsDoneBe(t) == pc[t] = "done" /\ req[t].kind = BE
IsDoneLc(t) == pc[t] = "done" /\ IsLc(req[t])

\* While an LC task is queued, no task performs more than 2^YIELD_FREQ scan
\* iterations before the LC task is polled.
LcWaitBounded == \A l \in Tasks, b \in Tasks : waited[l][b] <= Pow2(YIELD_FREQ)

\* C3 as stated: on one thread with a FIFO run queue, a queued LC task is polled
\* after at most 2^YIELD_FREQ scan iterations of each BE task, and no be_task
\* that started ahead of a queued LC task completes without having yielded.
C3_AsStated ==
  /\ LcWaitBounded
  /\ \A b \in Tasks : ~(IsDoneBe(b) /\ passed[b])

\* C3 amended: the bound holds, and a be_task that started ahead of a queued LC
\* task and completed without yielding scanned an empty snapshot (no iteration).
C3_LcNotStarved ==
  /\ LcWaitBounded
  /\ \A b \in Tasks : (IsDoneBe(b) /\ passed[b]) => DOMAIN snap[b] = {}

\* An LC task has waited in the queue through a full slice of 2^YIELD_FREQ
\* iterations of a scan.
C3_Witness ==
  \E l \in QueuedLc, b \in Tasks : waited[l][b] = Pow2(YIELD_FREQ) /\ InRunq(b)

\* C4: be_task never performs more than 2^YIELD_FREQ substring checks without a
\* yield, and right after the check of an iteration i with i mod 2^YIELD_FREQ = 0
\* the task has left the thread and is queued.
C4_YieldDiscipline ==
  \A t \in Tasks :
    /\ sinceYield[t] <= Pow2(YIELD_FREQ)
    /\ (pc[t] = "scan" /\ sinceYield[t] > 0 /\ (idx[t] - 1) % Pow2(YIELD_FREQ) = 0)
         => (InRunq(t) /\ \A th \in 1..MaxThreads : running[th] # t)

\* A scan has done 2^YIELD_FREQ checks in one slice and yielded.
C4_Witness ==
  \E t \in Tasks : pc[t] = "scan" /\ sinceYield[t] = Pow2(YIELD_FREQ) /\ InRunq(t)

\* C5: a be_task in its scan loop holds no lease (the lock's counters agree with
\* the leases the tasks hold), so writers are not kept out by a scan.
C5_NoLeaseWhileScanning ==
  /\ \A t \in Tasks : pc[t] = "scan" => holds[t] = "none"
  /\ lockReaders = Cardinality({t \in Tasks : holds[t] = "read"})
  /\ lockWriter = (\E t \in Tasks : holds[t] = "write")

\* Two scans are in progress and a write that started during one of them has
\* completed.
C5_Witness ==
  \E b1 \in Tasks, b2 \in Tasks :
    /\ b1 # b2
    /\ pc[b1] = "scan" /\ pc[b2] = "scan"
    /\ wroteDuring[b1]

\* C6: be_task returns the number of values of the map, as it was when cloned,
\* that contain the substring, whatever writes interleave with the scan.
C6_BeCountsSnapshot ==
  \A t \in Tasks : IsDoneBe(t) => result[t] = expect[t]

\* A scan has returned after a write, made during the scan, changed the count
\* the live map would give.
C6_Witness ==
  \E t \in Tasks :
    /\ IsDoneBe(t)
    /\ wroteDuring[t]
    /\ result[t] # Some(CountIn(store, req[t].val))

\* C7: every LC operation returns what the reference map, updated in the order
\* the leases were acquired, returns; reads leave the map as it is (the map is
\* the reference map whenever no write lease is held).
C7_RefinesReferenceMap ==
  /\ \A t \in Tasks : IsDoneLc(t) => result[t] = expect[t]
  /\ ~lockWriter => store = ref

\* A first write of a key returned None, a second one the first value, and a
\* read the second value.
C7_Witness ==
  \E w1 \in Tasks, w2 \in Tasks, r \in Tasks :
    /\ pc[w1] = "done" /\ req[w1].kind = LCW /\ result[w1] = None
    /\ pc[w2] = "done" /\ req[w2].kind = LCW /\ result[w2] = Some(req[w1].val)
    /\ req[w2].val # req[w1].val /\ req[w2].key = req[w1].key
    /\ pc[r] = "done" /\ req[r].kind = LCR /\ req[r].key = req[w2].key
    /\ result[r] = Some(req[w2].val)

\* =========================================================================
\* Claims about the closed-loop Connection.
\* =========================================================================
IsPrefix(a, b) == Len(a) <= Len(b) /\ SubSeq(b, 1, Len(a)) = a

\* C1 (as stated): while the peer makes no fault, the thread meets no error,
\* the CompletedResponse events of a connection carry the classes of its
\* requests in submission order, and once the peer has answered a request
\* the connection is reading that answer or, when the answer has been read to
\* its last byte, is back in Ready with one CompletedResponse per request.
C1_AsStated ==
  faults = 0 =>
    /\ thr \in {"run", "ok"}
    /\ \A c \in 1..conns_per_thr :
         /\ IsPrefix(completed[c], submitted[c])
         /\ answered[c] =>
              IF inbox[c] # << >>
                THEN cstatus[c].kind = "ReadingResponse"
                ELSE cstatus[c].kind = "Ready" /\ completed[c] = submitted[c]

\* C2 (as stated): a connection in WritingRequest still has bytes of its
\* request to write: it has left Writing once the bytes written add up to the
\* buffer's length.
C2_AsStated ==
  \A c \in 1..conns_per_thr :
    cstatus[c].kind = "WritingRequest" => Len(wire[c]) < Len(cstatus[c].write_buf)

\* =========================================================================
\* Claims about the open-loop Connection and the request ids.
\* =========================================================================
Occurrences(q, id) == Cardinality({i \in 1..Len(q) : q[i] = id})

\* C8 (as stated): every req_id of in_flight occurs once in exactly one of
\* write_queue and read_queue, in write_queue when its state is Writing and in
\* read_queue when it is Reading, and the queues hold no id absent from in_flight.
C8_AsStated ==
  \A c \in OConns :
    /\ \A id \in DOMAIN in_flight[c] :
         /\ Occurrences(write_queue[c], id) + Occurrences(read_queue[c], id) = 1
         /\ in_flight[c][id].kind = "Writing" => Occurrences(write_queue[c], id) = 1
         /\ in_flight[c][id].kind = "Reading" => Occurrences(read_queue[c], id) = 1
    /\ \A i \in 1..Len(write_queue[c]) : write_queue[c][i] \in DOMAIN in_flight[c]
    /\ \A i \in 1..Len(read_queue[c]) : read_queue[c][i] \in DOMAIN in_flight[c]

\* C9: a step in which a reconnect of a connection succeeds adds the number of
\* entries in_flight held to that connection's drop_count and leaves in_flight,
\* write_queue and read_queue empty; every other step leaves drop_count as it was.
C9_DropAccounting ==
  [][\A c \in OConns :
       IF reconnects'[c] # reconnects[c]
         THEN /\ drop_count'[c] = drop_count[c] + Cardinality(DOMAIN in_flight[c])
              /\ in_flight'[c] = EmptyMap
              /\ write_queue'[c] = << >>
              /\ read_queue'[c] = << >>
         ELSE drop_count'[c] = drop_count[c]]_vars

\* A reconnect has dropped two requests, one of them fully written.
C9_Witness ==
  \E c \in OConns :
    /\ Len(reconnects[c]) = 1
    /\ drop_count[c] = 2
    /\ in_flight[c] = EmptyMap
    /\ issued = 2
    /\ write_queue[c] = << >> /\ read_queue[c] = << >>

\* C10: the k-th req_id of thread i has i in its low req_id_shift bits and
\* k - 1 above them, and no two req_ids generated by the threads are equal.
C10_UniqueIds ==
  /\ \A i \in DOMAIN generated : \A k \in 1..Len(generated[i]) :
       /\ generated[i][k] % Pow2(req_id_shift) = i
       /\ generated[i][k] \div Pow2(req_id_shift) = k - 1
  /\ \A i, j \in DOMAIN generated :
       \A k \in 1..Len(generated[i]), l \in 1..Len(generated[j]) :
         generated[i][k] = generated[j][l] => (i = j /\ k = l)

\* Every thread of a bench of three has generated its requests.
C10_Witness ==
  /\ num_threads = 3
  /\ \A i \in DOMAIN generated : Len(generated[i]) = MaxIds

\* =========================================================================
\* Claims about the request-id shift.
\* =========================================================================
\* ceil(log2(n)) for n >= 1
CeilLog2(n) == IF n <= 1 THEN 0 ELSE BitLen(n - 1)

\* C11 (as stated): the shift handed to the threads is ceil(log2(num_threads)).
C11_AsStated == req_id_shift = CeilLog2(num_threads)

\* =========================================================================
\* The codec under test: a message is serialized and the bytes deserialized,
\* or a raw buffer is handed to deserialize, in either direction.
\* =========================================================================
\* req_id values, keys of [0, CAPACITY), counts
ReqIds == {0, 1, 300}
Keys == {0, 5, CAPACITY - 1}
Freqs == {0, 1, 258}

\* Strings as bytes: "", "a", "abc", the two bytes of U+00E9, "user00005"
Strings ==
  { << >>, <<97>>, <<97, 98, 99>>, <<195, 169>>,
    <<117, 115, 101, 114, 48, 48, 48, 48, 53>> }

CodecRequests ==
  {[NoRequest EXCEPT !.kind = BE, !.req_id = r, !.substring = s] : r \in ReqIds, s \in Strings}
  \cup {[NoRequest EXCEPT !.kind = LCR, !.req_id = r, !.id = k] : r \in ReqIds, k \in Keys}
  \cup {[NoRequest EXCEPT !.kind = LCW, !.req_id = r, !.id = k, !.username = s] :
          r \in ReqIds, k \in Keys, s \in Strings}

CodecResponses ==
  {[kind |-> BE, req_id |-> r, freq |-> f, username |-> None] : r \in ReqIds, f \in Freqs}
  \cup {[kind |-> k, req_id |-> r, freq |-> 0, username |-> u] :
          k \in {LCR, LCW}, r \in ReqIds, u \in {None} \cup {Some(s) : s \in Strings}}

\* Raw buffers: a kind byte, eight length bytes and n payload bytes, and the
\* buffers too short to hold a header. The declared lengths include 2^32,
\* 2^64 - 10, 2^64 - 9 and 2^64 - 1.
KindBytes == {0, 5, BE_BYTE, LC_READ_BYTE, LC_WRITE_BYTE, 9, 255}
MaxPayload == 18
DeclaredLens ==
  {BeBytes(n) : n \in {0, 7, 8, 9, 10, 16, 17}}
  \cup { <<0, 0, 0, 1, 0, 0, 0, 0>> }
  \cup {[i \in 1..8 |-> IF i < 8 THEN 255 ELSE low] : low \in {246, 247, 255}}
PayloadBytes(tag, n) ==
  [i \in 1..n |-> IF i = 1 THEN tag
                  ELSE IF i <= LEN_LENGTH THEN 0
                  ELSE IF i = LEN_LENGTH + 1 THEN SOME_BYTE
                  ELSE 97]
RawBuffers ==
  { <<v>> \o d \o PayloadBytes(tag, n) :
      v \in KindBytes, d \in DeclaredLens, tag \in {NONE_BYTE, SOME_BYTE, 2}, n \in 0..MaxPayload }
  \cup { SubSeq(<<v>> \o BeBytes(n), 1, k) : v \in KindBytes, n \in {0, 8, 16}, k \in 0..LEN_LENGTH }

CodecInit ==
  /\ \/ /\ codec_dir = "request"
        /\ codec_msg \in CodecRequests
        /\ codec_buf = << >>
        /\ codec_pc = "message"
     \/ /\ codec_dir = "response"
        /\ codec_msg \in CodecResponses
        /\ codec_buf = << >>
        /\ codec_pc = "message"
     \/ /\ codec_dir = "raw"
        /\ codec_msg = << >>
        /\ codec_buf \in RawBuffers
        /\ codec_pc = "buffer"
  /\ codec_as = "none"
  /\ codec_out = << >>
  /\ StoreIdle
  /\ ClosedIdle
  /\ OpenIdle
  /\ IdsIdle
  /\ ServerIdle
  /\ AddrIdle

\* Request::serialize applied to the message.
SerializeRequest ==
  /\ codec_pc = "message"
  /\ codec_dir = "request"
  /\ codec_buf' = RequestSerialize(codec_msg)
  /\ codec_pc' = "buffer"
  /\ UNCHANGED <<codec_dir, codec_msg, codec_as, codec_out>>
  /\ UNCHANGED otherThanCodec

\* Response::serialize applied to the message.
SerializeResponse ==
  /\ codec_pc = "message"
  /\ codec_dir = "response"
  /\ codec_buf' = ResponseSerialize(codec_msg)
  /\ codec_pc' = "buffer"
  /\ UNCHANGED <<codec_dir, codec_msg, codec_as, codec_out>>
  /\ UNCHANGED otherThanCodec

\* Request::deserialize applied to the bytes.
DeserializeRequest ==
  /\ codec_pc = "buffer"
  /\ codec_as' = "request"
  /\ codec_out' = RequestDeserialize(codec_buf)
  /\ codec_pc' = "done"
  /\ UNCHANGED <<codec_dir, codec_msg, codec_buf>>
  /\ UNCHANGED otherThanCodec

\* Response::deserialize applied to the bytes.
DeserializeResponse ==
  /\ codec_pc = "buffer"
  /\ codec_as' = "response"
  /\ codec_out' = ResponseDeserialize(codec_buf)
  /\ codec_pc' = "done"
  /\ UNCHANGED <<codec_dir, codec_msg, codec_buf>>
  /\ UNCHANGED otherThanCodec

CodecNext ==
  \/ SerializeRequest
  \/ SerializeResponse
  \/ DeserializeRequest
  \/ DeserializeResponse

SpecCodec == CodecInit /\ [][CodecNext]_vars

\* -------------------------------------------------------------------------
\* Claims about the codec (SpecCodec)
\* -------------------------------------------------------------------------
\* C12 (as stated): Request::deserialize of the bytes Request::serialize gives
\* for a request returns Ok of that request, whatever its class, req_id, key and
\* strings, the empty substring and the empty username included.
C12_AsStated ==
  (codec_dir = "request" /\ codec_as = "request" /\ codec_pc = "done")
    => codec_out = Ok(codec_msg)

\* C13 (as stated): Response::deserialize of the bytes Response::serialize gives
\* for a response returns Ok with the same class, req_id and optional username,
\* whether the username is None, Some("") or Some of any length.
C13_AsStated ==
  (codec_dir = "response" /\ codec_as = "response" /\ codec_pc = "done")
    => /\ codec_out.tag = "ok"
       /\ codec_out.val.kind = codec_msg.kind
       /\ codec_out.val.req_id = codec_msg.req_id
       /\ codec_out.val.username = codec_msg.username

\* A buffer too short for its header, or shorter than the header and the
\* payload its length bytes declare (a declared length of 2^31 or more exceeds
\* every buffer of the model).
TooShort(b) ==
  \/ Len(b) < 1 + LEN_LENGTH
  \/ LET d == Slice(b, 1, 1 + LEN_LENGTH)
     IN IF IsSmall(d) THEN Len(b) < 1 + LEN_LENGTH + FromBe(d) ELSE TRUE

\* C14 (as stated): deserialize, in either direction, returns PacketTooShort for
\* every buffer shorter than 9 bytes or shorter than 1 + 8 + payload_len,
\* whatever its kind byte and declared length; it neither panics nor returns
\* another error.
C14_AsStated ==
  (codec_pc = "done" /\ codec_as # "none" /\ TooShort(codec_buf))
    => codec_out = Err(<<"PacketTooShort">>)

\* The first byte is none of the three kind bytes.
UnknownKind(b) == Len(b) >= 1 /\ b[1] \notin {BE_BYTE, LC_READ_BYTE, LC_WRITE_BYTE}

\* C15 (as stated): for every byte v outside {6, 7, 8} and every buffer whose
\* first byte is v, Request::deserialize and Response::deserialize return
\* InvalidMessageType(v).
C15_AsStated ==
  (codec_pc = "done" /\ codec_as # "none" /\ UnknownKind(codec_buf))
    => codec_out = Err(<<"InvalidMessageType", codec_buf[1]>>)

\* C15 (amended): for every byte v outside {6, 7, 8} and every buffer of at
\* least 9 bytes whose first byte is v, Request::deserialize and
\* Response::deserialize return InvalidMessageType(v), whatever the declared
\* length and the payload are.
C15_TypeRejection ==
  (/\ codec_pc = "done"
   /\ codec_as # "none"
   /\ UnknownKind(codec_buf)
   /\ Len(codec_buf) >= 1 + LEN_LENGTH)
    => codec_out = Err(<<"InvalidMessageType", codec_buf[1]>>)

\* Response::deserialize has rejected a buffer of kind byte 255 that is shorter
\* than the length it declares.
C15_Witness ==
  /\ codec_pc = "done"
  /\ codec_as = "response"
  /\ Len(codec_buf) >= 1 + LEN_LENGTH
  /\ TooShort(codec_buf)
  /\ codec_buf[1] = 255
  /\ codec_out = Err(<<"InvalidMessageType", 255>>)

\* ResponseType::expected_len
ResponseExpectedLen(k) == IF k = BE THEN Some(2 * 8) ELSE None

\* The fixed payload length of class k in direction dir, if it has one.
FixedLen(dir, k) == IF dir = "request" THEN RequestExpectedLen(k) ELSE ResponseExpectedLen(k)

\* deserialize returned UnexpectedLength.
IsUnexpectedLength(out) == out.tag = "err" /\ out.val[1] = "UnexpectedLength"

\* C16 (as stated): a frame with a whole header of a known class is rejected
\* with UnexpectedLength exactly when the class has a fixed payload length in
\* the frame's direction (LcRead requests, BeRead responses) and the declared
\* payload_len differs from it; so an LcRead or LcWrite response is never
\* rejected for its payload_len, and a BeRead response of the wrong length is
\* rejected with an error, not a panic.
C16_AsStated ==
  (/\ codec_pc = "done"
   /\ codec_as # "none"
   /\ Len(codec_buf) >= 1 + LEN_LENGTH
   /\ ~UnknownKind(codec_buf))
    => LET k == TypeFromValue(codec_buf[1]).val
           declared == PayloadLen(Slice(codec_buf, 1, 1 + LEN_LENGTH))
           fixed == FixedLen(codec_as, k)
       IN /\ IsUnexpectedLength(codec_out) <=> (fixed # None /\ fixed[1] # declared)
          /\ (codec_as = "response" /\ k = BE /\ declared # fixed[1])
               => codec_out.tag = "err"

\* -------------------------------------------------------------------------
\* Claims about the closed-loop client (SpecPool, SpecConn)
\* -------------------------------------------------------------------------
\* The current request of connection c has had its first successful write and
\* has neither completed nor been reset.
Started(c) == cstatus[c].kind # "Ready" /\ cstatus[c].started

PendingIsStarted ==
  /\ tasks_pending >= 0
  /\ tasks_pending = Cardinality({c \in 1..conns_per_thr : Started(c)})

PendingSteps ==
  /\ tasks_pending' > tasks_pending
       => tasks_pending' = tasks_pending + 1 /\ emitted'.out = "SentRequest"
  /\ emitted'.out = "SentRequest" => tasks_pending' = tasks_pending + 1
  /\ tasks_pending' < tasks_pending
       => /\ tasks_pending' = tasks_pending - 1
          /\ \/ emitted'.out = "CompletedResponse"
             \/ emitted'.out = "ConnectionReset" /\ emitted'.val
  /\ emitted'.out = "CompletedResponse" => tasks_pending' = tasks_pending - 1
  /\ (emitted'.out = "ConnectionReset" /\ emitted'.val /\ thr' = "run")
       => tasks_pending' = tasks_pending - 1
  /\ ~(thr' = "panic" /\ emitted'.out \in {"CompletedResponse", "ConnectionReset"})
  /\ emitted'.out # "none" => (remaining_work > 0 \/ tasks_pending > 0)
  /\ (thr = "run" /\ thr' = "ok") => (remaining_work = 0 /\ tasks_pending = 0)

\* C17: in the closed-loop send_packets, tasks_pending always equals the number
\* of connections whose current request has had its first successful write and
\* has not yet completed or been reset; it goes up by 1 on SentRequest and on
\* nothing else, down by 1 on CompletedResponse or ConnectionReset(true) and on
\* nothing else, never below zero; an iteration runs only while remaining_work
\* or tasks_pending is positive, and the loop exits when both are 0.
C17_PendingCount == []PendingIsStarted /\ [][PendingSteps]_vars

\* Two requests were in flight and one of them has just been reset.
C17_Witness ==
  /\ conns_per_thr = 2
  /\ tasks_pending = 1
  /\ emitted.out = "ConnectionReset"
  /\ emitted.val
  /\ thr = "run"

\* Requests the thread took from its share of the workload
Accepted == SumOver([c \in 1..conns_per_thr |-> Len(submitted[c])], 1..conns_per_thr)

\* C18 (as stated): with a peer that answers every request and no reset, when
\* send_packets has returned the thread has recorded one completed response for
\* every request of its share of the workload, floor(W/T) of them.
C18_AsStated ==
  (thr = "ok" /\ conns_per_thr >= 1 /\ faults = 0)
    => Len(latencies) = Accepted

\* C19: when a write or a read fails with ConnectionReset, progress() returns
\* ConnectionReset(in_flight) with in_flight true iff start_time was set when it
\* was called: false in WritingRequest before the first successful write, true
\* in WritingRequest after it, true in ReadingResponse; and start_time is always
\* set in ReadingResponse.
C19_ResetInFlight ==
  /\ emitted.out = "ConnectionReset"
       => /\ emitted.from \in {"WritingRequest", "ReadingResponse"}
          /\ emitted.val = emitted.started
          /\ emitted.from = "ReadingResponse" => emitted.val
  /\ \A c \in 1..conns_per_thr : cstatus[c].kind = "ReadingResponse" => cstatus[c].started

\* A reset has met a request that was accepted and not yet written.
C19_Witness ==
  /\ emitted.out = "ConnectionReset"
  /\ emitted.from = "WritingRequest"
  /\ ~emitted.started
  /\ ~emitted.val
  /\ thr = "run"

\* C20: for each request progress() returns SentRequest exactly once, on the
\* first successful write, which is when start_time is assigned, and
\* MadeProgress on every later successful write; start_time is not set when the
\* request is accepted in Ready and is assigned at most once per request.
C20_SentOnce ==
  /\ (emitted.from = "WritingRequest" /\ emitted.out \in {"SentRequest", "MadeProgress"})
       => (emitted.out = "SentRequest" <=> ~emitted.started)
  /\ emitted.out = "SentRequest" => emitted.from = "WritingRequest"
  /\ \A c \in 1..conns_per_thr :
       /\ sent[c] = (IF Started(c) THEN 1 ELSE 0)
       /\ stamps[c] = sent[c]
       /\ (cstatus[c].kind = "WritingRequest" /\ cstatus[c].offset = 0 /\ wire[c] = << >>)
            => ~cstatus[c].started

\* A later write of a request already begun has returned MadeProgress.
C20_Witness ==
  /\ emitted.from = "WritingRequest"
  /\ emitted.started
  /\ emitted.out = "MadeProgress"
  /\ sent[1] = 1
  /\ stamps[1] = 1
  /\ cstatus[1].offset > 1

\* -------------------------------------------------------------------------
\* A read returned zero bytes to a connection that is reading a response.
ClosedZeroRead ==
  /\ Looping
  /\ cstatus[ci].kind = "ReadingResponse"
  /\ link[ci] = "closed"
  /\ inbox[ci] = << >>
OpenZeroRead ==
  /\ o_thr = "run"
  /\ phase.at = "reads"
  /\ read_queue[phase.c] # << >>
  /\ in_flight[phase.c][Head(read_queue[phase.c])].kind = "Reading"
  /\ o_link[phase.c] = "closed"
  /\ o_inbox[phase.c] = << >>

\* What the step taken on a zero-byte read does, in either mode: the error
\* ConnectionClosed leaves send_packets, progress returns no Progress value,
\* and the request is not completed (no latency sample, the request stays
\* where it was).
ZeroReadSteps ==
  /\ ClosedZeroRead =>
       /\ thr' = "err"
       /\ cerr' = <<"ConnectionClosed">>
       /\ emitted'.out = "Err"
       /\ emitted'.val = <<"ConnectionClosed">>
       /\ UNCHANGED <<latencies, completed, cstatus, tasks_pending>>
  /\ OpenZeroRead =>
       /\ o_thr' = "err"
       /\ o_err' = <<"ConnectionClosed">>
       /\ UNCHANGED <<o_latencies, read_queue, in_flight, drop_count>>

\* C21: a read that returns zero bytes while a client connection is reading a
\* response (closed-loop ReadingResponse, open-loop progress_reads) produces
\* the error ConnectionClosed, never a Progress value, and does not complete
\* the request.
C21_ZeroRead == [][ZeroReadSteps]_vars

\* progress_reads has met a read of zero bytes; C21_WitnessClosed is the same
\* for the closed-loop connection.
C21_Witness ==
  /\ o_thr = "err"
  /\ o_err = <<"ConnectionClosed">>
  /\ phase.at = "reads"
  /\ o_link[phase.c] = "closed"
  /\ read_queue[phase.c] # << >>
C21_WitnessClosed ==
  /\ thr = "err"
  /\ cerr = <<"ConnectionClosed">>
  /\ emitted.from = "ReadingResponse"
  /\ link[ci] = "closed"

\* -------------------------------------------------------------------------
\* The step is a read that returned bytes to the closed-loop connection of
\* the turn, or to progress_reads on the open-loop connection of the turn.
ClosedReadStep ==
  /\ Looping
  /\ cstatus[ci].kind = "ReadingResponse"
  /\ inbox[ci] # << >>
  /\ link' = link
  /\ Len(inbox'[ci]) < Len(inbox[ci])
OpenReadStep ==
  /\ o_thr = "run"
  /\ phase.at = "reads"
  /\ read_queue[phase.c] # << >>
  /\ in_flight[phase.c][Head(read_queue[phase.c])].kind = "Reading"
  /\ o_inbox[phase.c] # << >>
  /\ o_link' = o_link
  /\ Len(o_inbox'[phase.c]) < Len(o_inbox[phase.c])

\* The class check of a read that returned bytes starting with byte b to a
\* request in status st, and the error err the step left (none: << >>).
ClassChecked(st, b, err) ==
  LET first == st.read_buf = << >>
      received == TypeFromValue(b)
      mismatch == first /\ received.tag = "ok" /\ received.val # st.req
      raised == err # << >> /\ err[1] = "UnexpectedMessageType"
  IN /\ mismatch => err = <<"UnexpectedMessageType", st.req, received.val>>
     /\ raised => mismatch

ClassCheckSteps ==
  /\ ClosedReadStep =>
       /\ ClassChecked(cstatus[ci], inbox[ci][1], cerr')
       /\ cerr' # << >> => thr' \in {"err", "panic"}
  /\ OpenReadStep =>
       /\ ClassChecked(in_flight[phase.c][Head(read_queue[phase.c])], o_inbox[phase.c][1], o_err')
       /\ o_err' # << >> => o_thr' = "err"

\* C22: on the first non-empty read of a response, a first byte that is a
\* valid kind byte differing from the class derived from the request makes the
\* client return UnexpectedMessageType with the expected and the received
\* class; the check is applied on that first read only, and a matching first
\* byte never raises it.
C22_ClassCheck == [][ClassCheckSteps]_vars

\* The closed-loop connection has read a response of another class than its
\* request's; C22_WitnessOpen is the same for progress_reads, and
\* C22_WitnessLater a later read of a response that passed the check.
C22_Witness ==
  /\ thr = "err"
  /\ emitted.from = "ReadingResponse"
  /\ cerr # << >>
  /\ cerr[1] = "UnexpectedMessageType"
  /\ cerr[2] # cerr[3]
C22_WitnessOpen ==
  /\ o_thr = "err"
  /\ o_err # << >>
  /\ o_err[1] = "UnexpectedMessageType"
  /\ o_err[2] # o_err[3]
C22_WitnessLater ==
  /\ thr = "run"
  /\ emitted.from = "ReadingResponse"
  /\ emitted.out = "MadeProgress"
  /\ \E c \in 1..conns_per_thr : Len(cstatus[c].read_buf) > 1 + LEN_LENGTH

\* -------------------------------------------------------------------------
\* NetworkError's connection-level errors, and the ParseError names.
ConnectionLevel == {"ConnectionReset", "ConnectionClosed"}
ParseErrors ==
  {"InvalidMessageType", "UnexpectedMessageType", "UnexpectedLength", "PacketTooShort",
   "UnexpectedOptionType"}

\* The error send_packets returned, by name (none: "none").
ReturnedBy(status, err) == IF status = "err" /\ err # << >> THEN err[1] ELSE "none"

\* C27: in both client modes a connection-level error on a connection
\* (ConnectionReset or ConnectionClosed) triggers reconnect() of the connection
\* and the client thread keeps running, while a parse error propagates out of
\* send_packets and ends the thread: send_packets never returns a
\* connection-level error, and a call of progress that came back with a parse
\* error has ended the thread.
C27_AsStated ==
  /\ ReturnedBy(thr, cerr) \notin ConnectionLevel
  /\ ReturnedBy(o_thr, o_err) \notin ConnectionLevel
  /\ (emitted.out = "Err" /\ emitted.val # << >> /\ emitted.val[1] \in ParseErrors)
       => thr = "err" /\ cerr = emitted.val

\* -------------------------------------------------------------------------
\* The sum, over the reconnects of the thread's connections, of the size
\* in_flight had at the reconnect.
DroppedAtReconnects ==
  SumOver([c \in OConns |-> SumOver(reconnects[c], DOMAIN reconnects[c])], OConns)

\* C28: when the open-loop poll loop stops after runtime_secs, the requests
\* still in in_flight are not added to drop_count: the thread's drop_count is
\* zero while the loop runs, and the final drop_count equals the sum, over all
\* reconnects of its connections, of the size of in_flight at the reconnect.
C28_FinalDropCount ==
  /\ o_thr = "run" => t_drop_count = 0
  /\ o_thr = "ok" => t_drop_count = DroppedAtReconnects

\* The loop has stopped after a reconnect that dropped a request, with
\* another request still in in_flight.
C28_Witness ==
  /\ o_thr = "ok"
  /\ o_conns >= 1
  /\ t_drop_count = 1
  /\ \E c \in OConns : in_flight[c] # EmptyMap
  /\ \E c \in OConns : Len(reconnects[c]) = 1

\* -------------------------------------------------------------------------
\* The requests of connection c that were written in full (RequestState::Reading).
FullyWritten(c) == {id \in DOMAIN in_flight[c] : in_flight[c][id].kind = "Reading"}

\* The response at the head of the bytes waiting on connection c is whole.
ResponseWaiting(c) ==
  /\ Len(o_inbox[c]) >= 1 + LEN_LENGTH
  /\ Len(o_inbox[c]) >= 1 + LEN_LENGTH + FromBe(Slice(o_inbox[c], 1, 1 + LEN_LENGTH))

\* C29 (as stated): in open-loop mode every request fully written on a
\* connection has been moved to read_queue, in the order written, so that the
\* k-th response is attributed to the k-th request fully written and one
\* latency sample of its class is recorded for it: a request that is Reading
\* stands in read_queue, and a whole response never waits on a connection
\* whose read_queue is empty.
C29_AsStated ==
  \A c \in OConns :
    /\ \A id \in FullyWritten(c) : Occurrences(read_queue[c], id) = 1
    /\ (o_thr = "run" /\ o_link[c] = "up" /\ ResponseWaiting(c)) => read_queue[c] # << >>

\* What the code does instead: no latency sample is ever recorded.
NoSampleEver == \A c \in OConns : o_latencies[c] = << >> /\ read_queue[c] = << >>

\* -------------------------------------------------------------------------
\* The response of a request in state st has been received in full.
Received(st) ==
  /\ st.kind = "Reading"
  /\ st.expected_len # None
  /\ Len(st.read_buf) = 1 + LEN_LENGTH + st.expected_len[1]
  /\ ResponseDeserialize(st.read_buf).tag = "ok"

AnsweredCountedAsDrop ==
  \E c \in OConns : drop_count[c] + Len(o_latencies[c]) > issued

\* -------------------------------------------------------------------------
\* Worker c has been told by a read that its client closed the stream, and
\* is still in receive_request.
ReadsOnAfterClose(c) ==
  /\ s_link[c] = "closed"
  /\ w_pc[c] = "receive"
  /\ w_spin[c] > 0

\* C23 (as stated): when the client closes or resets its connection, the run
\* loop of the connection's Worker terminates: the worker does not read on
\* from the closed stream, and does not occupy the executor thread afterwards.
C23_AsStated ==
  \A c \in DOMAIN w_pc :
    /\ ~ReadsOnAfterClose(c)
    /\ (s_link[c] # "up" /\ w_spin[c] > 0) => polled # c

\* What the code does on a reset: the worker ends, by the panic of an unwrap.
ResetEndsWorker ==
  [][\A c \in DOMAIN w_pc :
       (s_link[c] = "reset" /\ w_pc[c] = "receive" /\ w_pc'[c] # w_pc[c])
         => w_pc'[c] = "dead" /\ polled' = 0]_vars

\* The worker of a closed stream has read it MaxSpin times over, holding the
\* executor thread, while another connection's request waits unread.
SpinsOnClosedStream ==
  \E c \in DOMAIN w_pc :
    /\ ReadsOnAfterClose(c)
    /\ w_spin[c] = MaxSpin
    /\ polled = c
    /\ \E d \in DOMAIN w_pc : d # c /\ w_pc[d] = "receive" /\ s_in[d] # << >>

\* What worker c holds, and its connection.
WorkerState(c) ==
  <<w_pc[c], w_read_buf[c], w_req[c], w_res[c], w_offset[c], s_conn[c], s_link[c],
    s_in[c], s_out[c]>>

\* The step ends worker c.
Ends(c) == w_pc[c] \in {"receive", "execute", "send"} /\ w_pc'[c] = "dead"

\* C24: a step in which a worker ends on an error (a failed read, a frame that
\* is rejected, a failed write) leaves every other worker and its connection,
\* the accept loop, the listener and the store as they were and leaves the
\* executor thread free, and a worker that has ended never holds the executor
\* thread: the other workers go on receiving and sending, and connections go on
\* being accepted.
C24_WorkerIsolation ==
  [][\A c \in DOMAIN w_pc :
       /\ Ends(c) =>
            /\ \A d \in DOMAIN w_pc : d # c => WorkerState(d)' = WorkerState(d)
            /\ <<srv_pc, listener, s_store>>' = <<srv_pc, listener, s_store>>
            /\ polled' = 0
       /\ w_pc'[c] = "dead" => polled' # c]_vars

\* One worker has ended on a frame it rejected, and the executor thread is
\* running another worker, which has sent part of a response.
C24_Witness ==
  \E c \in DOMAIN w_pc, d \in DOMAIN w_pc :
    /\ w_pc[c] = "dead"
    /\ s_link[c] = "up"
    /\ w_read_buf[c] # << >>
    /\ polled = d
    /\ w_pc[d] = "send"
    /\ w_offset[d] > 0
    /\ srv_pc = "accept"

\* A worker has ended on a failed write, and a connection opened since is
\* accepted and its worker has received a request.
C24_WitnessSend ==
  \E c \in DOMAIN w_pc, d \in DOMAIN w_pc :
    /\ w_pc[c] = "dead"
    /\ w_res[c] # << >>
    /\ w_pc[d] = "execute"

\* The classes of the whole frames in the bytes a connection carries, as the
\* reader frames them: a type byte, the payload length, the payload.
RECURSIVE SentKinds(_)
SentKinds(bytes) ==
  IF Len(bytes) < 1 + LEN_LENGTH THEN << >>
  ELSE LET total == 1 + LEN_LENGTH + PayloadLen(Slice(bytes, 1, 1 + LEN_LENGTH)) IN
       IF Len(bytes) < total THEN << >>
       ELSE <<TypeFromValue(bytes[1]).val>> \o SentKinds(SubSeq(bytes, total + 1, Len(bytes)))

\* C25: on each connection the responses the worker has sent answer, one for
\* one and class for class, the first requests it has received; the bytes it
\* has written are those responses, whole, and at most the beginning of one
\* more; at most one received request is unanswered, and none while the worker
\* is receiving: response k has left in full before request k+1 is read.
C25_OneResponsePerRequest ==
  \A c \in DOMAIN w_pc :
    /\ IsPrefix(w_responded[c], w_received[c])
    /\ Len(w_received[c]) - Len(w_responded[c]) \in {0, 1}
    /\ SentKinds(s_out[c]) = w_responded[c]
    /\ w_pc[c] = "receive" =>
         /\ w_responded[c] = w_received[c]
         /\ w_res[c] = << >>
    /\ (w_pc[c] = "send" /\ w_offset[c] < Len(w_res[c])) =>
         Len(w_responded[c]) + 1 = Len(w_received[c])

\* A worker has answered a read and then a write on one connection and is
\* receiving again.
C25_Witness ==
  \E c \in DOMAIN w_pc :
    /\ w_received[c] = <<LCR, LCW>>
    /\ w_responded[c] = <<LCR, LCW>>
    /\ w_pc[c] = "receive"

\* send_response has written a response in two parts and goes on calling write
\* with no byte left, while the connection's next request waits unread.
SendNeverReturns ==
  \E c \in DOMAIN w_pc :
    /\ w_pc[c] = "send"
    /\ w_offset[c] = Len(w_res[c])
    /\ w_spin[c] = MaxSpin
    /\ polled = c
    /\ s_in[c] # << >>
    /\ w_responded[c] = w_received[c]

\* A connection has been opened by the client.
Opened(c) == s_conn[c] # "none"

\* C26: the server sends the signal once, and not before its listener is
\* bound: it has sent none until it reaches its accept loop and one from then
\* on; and the client has opened a connection only after main received that
\* signal, which is then the one the channel no longer holds.
C26_ReadyBeforeConnect ==
  /\ signals <= 1
  /\ signals = 1 <=> srv_pc = "accept"
  /\ signals = 1 => listener = "bound"
  /\ channel <= signals
  /\ main_pc = "client" => (signals = 1 /\ channel = 0)
  /\ \A c \in DOMAIN s_conn : Opened(c) => (main_pc = "client" /\ listener = "bound")

\* The client has opened two connections after the signal, and the server has
\* accepted both.
C26_Witness ==
  /\ signals = 1
  /\ main_pc = "client"
  /\ \A c \in SConns : s_conn[c] = "accepted"

\* The listener could not be bound: the server thread has panicked without a
\* signal, recv has failed in main, and no connection is opened.
C26_WitnessNoSignal ==
  /\ srv_pc = "panic"
  /\ main_pc = "panic"
  /\ listener = "none"
  /\ signals = 0
  /\ \A c \in DOMAIN s_conn : ~Opened(c)

\* =========================================================================
\* Claims about the framing of the streams, the server's writes, the lock of
\* the Store and the accounting of the clients.
\* =========================================================================
\* A reader's buffer holds more bytes than the frame that it is reading: the
\* header is whole and the buffer is longer than 1 + LEN_LENGTH + expected_len.
OverRead(read_buf) ==
  /\ Len(read_buf) >= 1 + LEN_LENGTH
  /\ LET expected_len == PayloadLen(Slice(read_buf, 1, 1 + LEN_LENGTH)) IN
       expected_len >= 0 /\ Len(read_buf) > 1 + LEN_LENGTH + expected_len

\* C31 (as stated): no reader buffers more than 1 + 8 + expected_len bytes
\* of the frame it reads: not the server's receive_request, not the
\* closed-loop Connection, not the open-loop progress_reads, whatever the peer
\* has queued on the stream.
C31_AsStated ==
  /\ \A c \in DOMAIN w_read_buf : ~OverRead(w_read_buf[c])
  /\ \A c \in DOMAIN cstatus :
       cstatus[c].kind = "ReadingResponse" => ~OverRead(cstatus[c].read_buf)
  /\ \A c \in DOMAIN in_flight : \A id \in DOMAIN in_flight[c] :
       in_flight[c][id].kind = "Reading" => ~OverRead(in_flight[c][id].read_buf)

\* A client has written two requests on one connection before the worker
\* read; one read returned both, and receive_request has failed with "Read
\* more bytes than expected", which ended the worker.
ServerOverRead ==
  \E c \in DOMAIN w_pc :
    /\ w_pc[c] = "dead"
    /\ s_link[c] = "up"
    /\ OverRead(w_read_buf[c])
    /\ w_received[c] = << >>

\* progress_reads has read two queued responses in one read and returned
\* UnexpectedLength.
OpenOverRead ==
  /\ o_thr = "err"
  /\ o_err # << >>
  /\ o_err[1] = "UnexpectedLength"
  /\ \E c \in DOMAIN in_flight : \E id \in DOMAIN in_flight[c] :
       in_flight[c][id].kind = "Reading" /\ OverRead(in_flight[c][id].read_buf)

\* C32 (as stated): send_response has returned once the bytes written add up
\* to the response: a worker still in send_response has bytes of the response
\* left to write, and has made no write of an empty slice.
C32_AsStated ==
  \A c \in DOMAIN w_pc :
    w_pc[c] = "send" => (w_offset[c] < Len(w_res[c]) /\ w_spin[c] = 0)

\* The bytes of the response have been written once each, in two writes, and
\* send_response has not returned: it has called write on the empty slice.
WrittenOnceAndLooping ==
  \E c \in DOMAIN w_pc :
    /\ w_pc[c] = "send"
    /\ w_offset[c] = Len(w_res[c])
    /\ s_out[c] = w_res[c]
    /\ w_spin[c] > 0

\* A call of the Store is in progress in task t.
InCall(t) == pc[t] \in {"ready", "wait", "held", "scan"}

\* Every call in progress is pending on the lock, and the lock can be taken
\* by none of them.
AllBlocked ==
  /\ \E t \in Tasks : InCall(t)
  /\ \A t \in Tasks : InCall(t) => (pc[t] = "wait" /\ ~CanLock(req[t]))

\* The step gives task t a lease.
TakesLease(t) == holds'[t] # "none" /\ holds'[t] # holds[t]

\* C33: in no reachable state is every call in progress blocked on the lock;
\* a task that takes a lease holds none when it takes it; and, the executor's
\* threads running on and the lock delivering its wake-ups, every call that
\* has begun returns.
C33_NoDeadlock ==
  /\ []~AllBlocked
  /\ [][\A t \in Tasks : TakesLease(t) => holds[t] = "none"]_vars
  /\ \A t \in Tasks : InCall(t) ~> pc[t] = "done"

\* A write is pending on the lock while two reads hold their leases, on two
\* threads.
C33_Witness ==
  \E w \in Tasks, r1 \in Tasks, r2 \in Tasks :
    /\ r1 # r2
    /\ pc[w] = "wait" /\ req[w].kind = LCW
    /\ pc[r1] = "held" /\ holds[r1] = "read"
    /\ pc[r2] = "held" /\ holds[r2] = "read"
    /\ lockReaders = 2

\* The stream as its reader frames it: the req_ids of the whole requests it
\* carries, in order, and the bytes after the last whole request.
RECURSIVE WireFrames(_)
WireFrames(bytes) ==
  IF Len(bytes) < 1 + LEN_LENGTH THEN [ids |-> << >>, rest |-> bytes]
  ELSE LET total == 1 + LEN_LENGTH + FromBe(Slice(bytes, 1, 1 + LEN_LENGTH)) IN
       IF Len(bytes) < total THEN [ids |-> << >>, rest |-> bytes]
       ELSE LET after == WireFrames(SubSeq(bytes, total + 1, Len(bytes))) IN
            [ids |-> <<FromBe(Slice(bytes, 1 + LEN_LENGTH, 1 + 2 * LEN_LENGTH))>> \o after.ids,
             rest |-> after.rest]

\* The req_ids of q are in the order the thread generated them.
InEnqueueOrder(q) == \A i \in 1..Len(q), j \in 1..Len(q) : i < j => q[i] < q[j]

\* C34: on every open-loop connection the stream carries whole requests in
\* the order they were enqueued, all of them enqueued before the requests
\* still in write_queue; the bytes after the last whole request are the part
\* written so far of the request at the head of write_queue; and no request
\* behind the head has had a byte written.
C34_WriteOrder ==
  \A c \in OConns :
    LET w == WireFrames(o_wire[c])
        q == write_queue[c]
        Writes(i) == in_flight[c][q[i]]
    IN /\ InEnqueueOrder(w.ids \o q)
       /\ \A i \in 1..Len(q) : q[i] \in DOMAIN in_flight[c]
       /\ \A i \in 2..Len(q) :
            Writes(i).kind = "Writing" /\ Writes(i).offset = 0 /\ ~Writes(i).started
       /\ w.rest = IF q # << >> /\ Writes(1).kind = "Writing"
                     THEN SubSeq(Writes(1).write_buf, 1, Writes(1).offset)
                     ELSE << >>

\* The first request enqueued is whole on the stream, the second is at the
\* head of write_queue with part of its bytes written behind it.
C34_Witness ==
  \E c \in OConns :
    /\ Len(WireFrames(o_wire[c]).ids) = 1
    /\ Len(write_queue[c]) = 1
    /\ WireFrames(o_wire[c]).ids[1] < write_queue[c][1]
    /\ in_flight[c][write_queue[c][1]].offset > 0
    /\ WireFrames(o_wire[c]).rest # << >>

\* Two requests are queued, the head partly written and the other untouched.
C34_WitnessQueued ==
  \E c \in OConns :
    /\ Len(write_queue[c]) = 2
    /\ in_flight[c][write_queue[c][1]].offset > 0
    /\ in_flight[c][write_queue[c][2]].offset = 0

\* Requests accepted by a connection and not yet begun: start_time is None.
NotBegun ==
  Cardinality({c \in 1..conns_per_thr :
                 cstatus[c].kind = "WritingRequest" /\ ~cstatus[c].started})

\* CompletedResponse events of the thread.
Completions == SumOver([c \in 1..conns_per_thr |-> Len(completed[c])], 1..conns_per_thr)

\* The requests the thread still answers for.
Accounted == remaining_work + NotBegun + tasks_pending + Completions

\* C35: every iteration of the closed loop keeps the account: what is left
\* of the work, the requests accepted and not begun, tasks_pending and the
\* completions add up to what they added up to before, less the one request
\* an iteration whose progress() reported ConnectionReset has lost;
\* remaining_work never grows; and that iteration leaves the connection Ready
\* and remaining_work as it was: the lost request is not generated again.
C35_WorkAccounted ==
  [][(thr = "run" /\ thr' = "run") =>
       /\ Accounted' + (IF emitted'.out = "ConnectionReset" THEN 1 ELSE 0) = Accounted
       /\ remaining_work' <= remaining_work
       /\ emitted'.out = "ConnectionReset" =>
            /\ cstatus'[ci].kind = "Ready"
            /\ remaining_work' = remaining_work]_vars

\* A reset has lost a request that was being read, after a response was
\* completed, and work remains.
C35_Witness ==
  /\ thr = "run"
  /\ emitted.out = "ConnectionReset"
  /\ emitted.from = "ReadingResponse"
  /\ Completions >= 1
  /\ remaining_work >= 1

\* A reset has lost a request that was accepted and never begun.
C35_WitnessNotBegun ==
  /\ thr = "run"
  /\ emitted.out = "ConnectionReset"
  /\ emitted.from = "WritingRequest"
  /\ ~emitted.started
  /\ tasks_pending >= 1

\* C36 (as stated): every stream of a client thread, the one Connection::new
\* opened and the ones reconnect opened after it, is connected to the address
\* the connection was created with, and a reconnect asks for that address.
C36_AsStated ==
  \A c \in DOMAIN a_stream :
    /\ a_stream[c].link = "up" => a_stream[c].peer = OriginalAddr(c)
    /\ a_stream[c].link = "reset" => ReconnectAddr(c) = OriginalAddr(c)

\* A reconnect has been refused at the stream's own local port, and the
\* thread has returned the error.
ReconnectRefused ==
  /\ a_thr = "err"
  /\ a_reconnects = 1
  /\ \E c \in DOMAIN a_stream :
       a_stream[c].link = "reset" /\ ReconnectAddr(c) # a_addr

\* A reconnect has connected the stream to its own local port.
ReconnectedToItself ==
  \E c \in DOMAIN a_stream :
    /\ a_stream[c].link = "up"
    /\ a_stream[c].peer = a_stream[c].local
    /\ a_reconnects >= 1

====
